---- MODULE Spec2Model ----
(***************************************************************************)
(* Carrier integration service: the HTTP transport with retry/backoff and  *)
(* error classification (HttpClient), the OAuth token cache               *)
(* (UpsAuthManager) and the UPS adapter (UpsCarrier).                      *)
(*                                                                         *)
(* These specifications share the definitions below:                       *)
(*   SpecClassify  handleAxiosError as a function of every raw fault       *)
(*   SpecHttp      one HttpClient.get/post call with its retry loop        *)
(*   SpecAuth      one UpsAuthManager used by concurrent callers           *)
(*   Spec          one UpsCarrier (getRates / healthCheck) and its manager *)
(*   SpecFactory   DefaultCarrierFactory.createCarrier on every name       *)
(*   SpecService   one CarrierIntegrationService and the calls made on it  *)
(*   SpecMapper    mapUpsResponseToRates on every RatedShipment shape      *)
(*   SpecCatch     the catch block of UpsCarrier.getRates on every error   *)
(*   SpecServiceFair  SpecService where attempts settle and timers fire     *)
(***************************************************************************)
EXTENDS Integers, Sequences, FiniteSets, TLC

VARIABLES
    fault,          \* SpecClassify: the raw AxiosError handed to handleAxiosError
    classified,     \* SpecClassify: what handleAxiosError threw for it
    maxRetries,     \* HttpClient.maxRetries (config.http.maxRetries)
    http,           \* SpecHttp: the state of one executeWithRetry call chain
    now,            \* the clock read by new Date() / Date.now(), in ms
    cachedToken,    \* UpsAuthManager.cachedToken
    tokenMeta,      \* history: when the cached token was acquired, and its expires_in
    task,           \* the asynchronous calls in progress, one per caller
    settled,        \* what the last step resolved or rejected a call with, if it settled one
    cleared,        \* history: clearToken() ran and no getAccessToken() call started since
    lookup,         \* SpecFactory: one DefaultCarrierFactory.createCarrier call
    service,        \* SpecService: the call in progress on one CarrierIntegrationService
    mapped,         \* SpecMapper: one mapUpsResponseToRates call
    caught          \* SpecCatch: one exception in the catch block of getRates

vars == <<fault, classified, maxRetries, http, now, cachedToken, tokenMeta, task,
          settled, cleared, lookup, service, mapped, caught>>

(***************************************************************************)
(* Bounds of the model.                                                    *)
(***************************************************************************)
\* config.http.maxRetries ranges over 0..MaxRetriesBound in SpecHttp
MaxRetriesBound == 6

\* config.http.maxRetries in SpecAuth
MaxRetriesAuth == 1

\* config.http.maxRetries ranges over 0..MaxRetriesAdapter in Spec
MaxRetriesAdapter == 1

\* The callers that use one UpsAuthManager concurrently in SpecAuth.
Tasks == {"A", "B"}

\* The instants (ms) at which the clock is observed.
ClockInstants == {0, 1000, 3299999, 3300000, 3301000}

\* The expires_in values (s) the token endpoint answers with.
ExpiresIn == {60, 3600}

(***************************************************************************)
(* Program constants.                                                      *)
(***************************************************************************)
baseDelay == 1000
maxDelay == 10000
jitterMax == 1000

\* Values Math.random() * 1000 is sampled at (it ranges over [0, jitterMax)).
Jitters == {0, jitterMax - 1}

(***************************************************************************)
(* Error taxonomy (domain/models.ts).                                      *)
(***************************************************************************)
ErrorCode ==
    {"AUTH_FAILED", "AUTH_TOKEN_EXPIRED", "AUTH_INVALID_CREDENTIALS",
     "VALIDATION_ERROR", "INVALID_ADDRESS", "INVALID_PACKAGE",
     "API_ERROR", "RATE_LIMIT_EXCEEDED", "SERVICE_UNAVAILABLE",
     "NETWORK_ERROR", "TIMEOUT", "CARRIER_ERROR", "NO_RATES_AVAILABLE",
     "UNKNOWN_ERROR"}

\* new CarrierIntegrationError({code, retryable, ...}): a classified error.
\* raw = TRUE marks a value that is NOT a CarrierIntegrationError.
CarrierIntegrationError(code, retryable) ==
    [raw |-> FALSE, code |-> code, retryable |-> retryable, response |-> FALSE]

\* An exception that is not an instance of CarrierIntegrationError; response
\* tells whether it has a 'response' property.
RawError(code, response) ==
    [raw |-> TRUE, code |-> code, retryable |-> FALSE, response |-> response]

NoError == [raw |-> FALSE, code |-> "-", retryable |-> FALSE, response |-> FALSE]

(***************************************************************************)
(* Raw faults: the AxiosError shapes (error.code, error.response?.status). *)
(***************************************************************************)
TimeoutCodes == {"ECONNABORTED", "ETIMEDOUT"}

\* "undefined" stands for an AxiosError without a code.
AxiosCodes ==
    TimeoutCodes \cup {"ERR_NETWORK", "ERR_BAD_REQUEST", "ERR_BAD_RESPONSE", "undefined"}

\* HTTP statuses the environment answers with.
Statuses == {200, 204, 304, 400, 401, 403, 404, 429, 499, 500, 503}

AxiosError(code, hasResponse, status) ==
    [code |-> code, hasResponse |-> hasResponse, status |-> status]

NoFault == AxiosError("-", FALSE, 0)

\* Every AxiosError shape: any code, with or without a response of any status.
AllFaults ==
    {AxiosError(c, FALSE, 0) : c \in AxiosCodes}
        \cup {AxiosError(c, TRUE, s) : c \in AxiosCodes, s \in Statuses}

(***************************************************************************)
(* HttpClient.handleAxiosError: raw fault -> CarrierIntegrationError.      *)
(***************************************************************************)
handleAxiosError_NoTimeoutCheck(error) ==
    IF ~error.hasResponse THEN CarrierIntegrationError("NETWORK_ERROR", TRUE)
    ELSE IF error.status = 429 THEN CarrierIntegrationError("RATE_LIMIT_EXCEEDED", TRUE)
    ELSE IF error.status = 401 THEN CarrierIntegrationError("AUTH_FAILED", FALSE)
    ELSE IF error.status = 403 THEN CarrierIntegrationError("AUTH_INVALID_CREDENTIALS", FALSE)
    ELSE IF error.status >= 500 THEN CarrierIntegrationError("SERVICE_UNAVAILABLE", TRUE)
    ELSE IF error.status >= 400 /\ error.status < 500
        THEN CarrierIntegrationError("API_ERROR", FALSE)
    ELSE CarrierIntegrationError("UNKNOWN_ERROR", FALSE)

handleAxiosError(error) ==
    IF error.code = "ECONNABORTED" \/ error.code = "ETIMEDOUT"
        THEN CarrierIntegrationError("TIMEOUT", TRUE)
    ELSE IF ~error.hasResponse THEN CarrierIntegrationError("NETWORK_ERROR", TRUE)
    ELSE IF error.status = 429 THEN CarrierIntegrationError("RATE_LIMIT_EXCEEDED", TRUE)
    ELSE IF error.status = 401 THEN CarrierIntegrationError("AUTH_FAILED", FALSE)
    ELSE IF error.status = 403 THEN CarrierIntegrationError("AUTH_INVALID_CREDENTIALS", FALSE)
    ELSE IF error.status >= 500 THEN CarrierIntegrationError("SERVICE_UNAVAILABLE", TRUE)
    ELSE IF error.status >= 400 /\ error.status < 500
        THEN CarrierIntegrationError("API_ERROR", FALSE)
    ELSE CarrierIntegrationError("UNKNOWN_ERROR", FALSE)

(***************************************************************************)
(* The axios instance of the constructor: axios.create({timeout, headers}) *)
(* keeps the default validateStatus, so a response settles the request     *)
(* successfully exactly when its status is 2xx; every other response and   *)
(* every transport fault rejects with an AxiosError.                       *)
(***************************************************************************)
validateStatus(status) == status >= 200 /\ status < 300

\* What the wire can answer to one attempt: a response with some status, a
\* timeout (ECONNABORTED / ETIMEDOUT, no response) or a network fault.
WireOutcomes ==
    {AxiosError("-", TRUE, s) : s \in Statuses}
        \cup {AxiosError(c, FALSE, 0) : c \in TimeoutCodes \cup {"ERR_NETWORK"}}

\* The AxiosError axios builds for a response that fails validateStatus.
BadStatusCode(status) ==
    IF status >= 400 /\ status < 500 THEN "ERR_BAD_REQUEST"
    ELSE IF status >= 500 /\ status < 600 THEN "ERR_BAD_RESPONSE"
    ELSE "undefined"

\* The response interceptor's rejected handler, installed by the constructor:
\* (error) => this.handleAxiosError(error).
InterceptRejected_NotInstalled(error) == RawError(error.code, error.hasResponse)

InterceptRejected(error) == handleAxiosError(error)

\* One attempt, this.client.get/post(...), settled: [ok, status, error].
AttemptResult(ok, status, error) == [ok |-> ok, status |-> status, error |-> error]

ClientRequest(wire) ==
    IF wire.hasResponse /\ validateStatus(wire.status)
        THEN AttemptResult(TRUE, wire.status, NoError)
    ELSE IF wire.hasResponse
        THEN AttemptResult(FALSE, wire.status,
                 InterceptRejected(AxiosError(BadStatusCode(wire.status), TRUE, wire.status)))
    ELSE AttemptResult(FALSE, 0, InterceptRejected(wire))

(***************************************************************************)
(* HttpClient.executeWithRetry and calculateBackoffDelay.                  *)
(***************************************************************************)
Pow2(n) == IF n <= 0 THEN 1 ELSE 2 ^ n

Min(a, b) == IF a < b THEN a ELSE b

calculateBackoffDelay_NoCap(attempt, jitter) ==
    baseDelay * Pow2(attempt) + jitter

calculateBackoffDelay(attempt, jitter) ==
    Min(baseDelay * Pow2(attempt), maxDelay) + jitter

\* The catch block's test: retry iff the error is a retryable
\* CarrierIntegrationError and attempt < this.maxRetries.
ShouldRetry_OffByOne(error, attempt, retries) ==
    ~error.raw /\ error.retryable /\ attempt <= retries

ShouldRetry_IgnoresRetryable(error, attempt, retries) ==
    ~error.raw /\ attempt < retries

ShouldRetry(error, attempt, retries) ==
    ~error.raw /\ error.retryable /\ attempt < retries

(***************************************************************************)
(* SpecClassify: handleAxiosError applied to every raw fault.              *)
(***************************************************************************)
classifyVars == <<fault, classified>>

httpVars == <<maxRetries, http>>

authVars == <<now, cachedToken, tokenMeta, task, settled, cleared>>

serviceVars == <<lookup, service, mapped, caught>>

ClassifyIdle == fault = NoFault /\ classified = NoError

\* The state of a call chain before get/post is called.
HttpCallState(pc, attempt, attempts, delays, wire, error, status, thrown) ==
    [pc |-> pc, attempt |-> attempt, attempts |-> attempts, delays |-> delays,
     wire |-> wire, error |-> error, status |-> status, thrown |-> thrown]

HttpIdle == http = HttpCallState("idle", 0, 0, <<>>, NoFault, NoError, 0, NoError)

(***************************************************************************)
(* mapUpsResponseToRates (carriers/ups/ups-mapper).                        *)
(***************************************************************************)
\* The longest RatedShipment array handed to the mapper in SpecMapper.
\* JSON values of a response body, by type.
JStr(v) == [t |-> "string", s |-> v, n |-> 0]

JNum(v) == [t |-> "number", s |-> "", n |-> v]

JUndef == [t |-> "undefined", s |-> "", n |-> 0]

MaxShipments == 3

\* The Service.Code values of rated shipments.
ServiceCodes == {"01", "02", "03", "12"}

\* The optional members TimeInTransit and GuaranteedDelivery of a rated
\* shipment: absent, or an object whose optional BusinessDaysInTransit is
\* undefined or a string.
NoMember == [present |-> FALSE, BusinessDaysInTransit |-> JUndef]

Member(BusinessDaysInTransit) ==
    [present |-> TRUE, BusinessDaysInTransit |-> BusinessDaysInTransit]

\* The strings BusinessDaysInTransit is answered with: empty, numerals, a
\* numeral followed by text, and text that is no numeral.
DayStrings == {"", "0", "2", "5", "5 days", "soon"}

Members == {NoMember, Member(JUndef)} \cup {Member(JStr(str)) : str \in DayStrings}

\* A rated shipment of the answer.
ShipmentWith(code, TimeInTransit, GuaranteedDelivery) ==
    [Service |-> [Code |-> code], TimeInTransit |-> TimeInTransit,
     GuaranteedDelivery |-> GuaranteedDelivery]

Shipment(code) == ShipmentWith(code, NoMember, NoMember)

\* The RatedShipment member: one shipment object, or an array of them.
OneShipment(shipment) == [isArray |-> FALSE, items |-> <<shipment>>]

ShipmentArray(shipments) == [isArray |-> TRUE, items |-> shipments]

NoShipments == ShipmentArray(<<>>)

RatedShipments ==
    {OneShipment(ShipmentWith(code, TimeInTransit, GuaranteedDelivery)) :
        code \in ServiceCodes, TimeInTransit \in Members, GuaranteedDelivery \in Members}
        \cup {ShipmentArray([i \in 1..n |-> Shipment(codes[i])]) :
                 n \in 0..MaxShipments, codes \in [1..MaxShipments -> ServiceCodes]}

\* Array.isArray(RatedShipment) ? RatedShipment : [RatedShipment]
ratedShipments_Reversed(RatedShipment) ==
    [i \in 1..Len(RatedShipment.items) |->
        RatedShipment.items[Len(RatedShipment.items) + 1 - i]]

ratedShipments(RatedShipment) ==
    IF RatedShipment.isArray THEN RatedShipment.items ELSE <<RatedShipment.items[1]>>

\* parseInt(str, 10) on the strings of DayStrings: the leading numeral, NaN
\* when there is none.
NaN == [t |-> "NaN", s |-> "", n |-> 0]

parseInt(str) ==
    CASE str = "0" -> JNum(0)
      [] str = "2" -> JNum(2)
      [] str \in {"5", "5 days"} -> JNum(5)
      [] OTHER -> NaN

\* The value is truthy: a non-empty string (undefined and "" are falsy).
Truthy(value) == value.t = "string" /\ value.s # ""

\* transitDays of the map callback: TimeInTransit?.BusinessDaysInTransit if
\* truthy, else GuaranteedDelivery?.BusinessDaysInTransit if truthy, else
\* undefined.
transitDays_GuaranteedFirst(shipment) ==
    IF shipment.GuaranteedDelivery.present
            /\ Truthy(shipment.GuaranteedDelivery.BusinessDaysInTransit)
        THEN parseInt(shipment.GuaranteedDelivery.BusinessDaysInTransit.s)
    ELSE IF shipment.TimeInTransit.present
            /\ Truthy(shipment.TimeInTransit.BusinessDaysInTransit)
        THEN parseInt(shipment.TimeInTransit.BusinessDaysInTransit.s)
    ELSE JUndef

transitDays(shipment) ==
    IF shipment.TimeInTransit.present
            /\ Truthy(shipment.TimeInTransit.BusinessDaysInTransit)
        THEN parseInt(shipment.TimeInTransit.BusinessDaysInTransit.s)
    ELSE IF shipment.GuaranteedDelivery.present
            /\ Truthy(shipment.GuaranteedDelivery.BusinessDaysInTransit)
        THEN parseInt(shipment.GuaranteedDelivery.BusinessDaysInTransit.s)
    ELSE JUndef

\* The quote the map callback makes of one rated shipment.
RateQuote(shipment) ==
    [carrier |-> "UPS", serviceCode |-> shipment.Service.Code,
     transitDays |-> transitDays(shipment),
     guaranteedDelivery |-> shipment.GuaranteedDelivery.present]

\* ratedShipments.map(...)
mapQuotes(RatedShipment) ==
    [i \in 1..Len(ratedShipments(RatedShipment)) |->
        RateQuote(ratedShipments(RatedShipment)[i])]

NoMapping(RatedShipment) ==
    [RatedShipment |-> RatedShipment, called |-> FALSE, quotes |-> <<>>]

(***************************************************************************)
(* DefaultCarrierFactory (carriers/carrier-factory).  A carrier name is a  *)
(* sequence of characters.                                                 *)
(***************************************************************************)
\* The longest carrier name handed to createCarrier in SpecFactory.
MaxNameLen == 3

\* The characters carrier names are made of.
Chars == {"u", "p", "s", "U", "P", "S", "x"}

\* String.prototype.toLowerCase on one character.
LowerChar(ch) ==
    CASE ch = "U" -> "u"
      [] ch = "P" -> "p"
      [] ch = "S" -> "s"
      [] OTHER -> ch

toLowerCase_Identity(str) == str

toLowerCase(str) == [i \in 1..Len(str) |-> LowerChar(str[i])]

\* The names of length 0..MaxNameLen.
CarrierNames == UNION {[1..n -> Chars] : n \in 0..MaxNameLen}

\* registerCarriers: the keys of the carriers map in insertion order, and
\* the adapter class each key constructs.
registerCarriers == << <<"u", "p", "s">> >>

carriers == [key \in {registerCarriers[i] : i \in 1..Len(registerCarriers)} |-> "UpsCarrier"]

getSupportedCarriers == registerCarriers

UnsupportedCarrier_Classified(carrierName) ==
    CarrierIntegrationError("UNKNOWN_ERROR", FALSE)

\* The plain Error createCarrier throws; its message is made of the name
\* as given and of the supported names.
UnsupportedCarrier(carrierName) ==
    [raw |-> TRUE, code |-> "Error", retryable |-> FALSE, response |-> FALSE,
     message |-> [unsupported |-> carrierName, supported |-> getSupportedCarriers]]

\* createCarrier(carrierName): the adapter class it constructs an instance
\* of, or the error it throws.
createCarrier(carrierName) ==
    LET normalizedName == toLowerCase(carrierName) IN
    IF normalizedName \notin DOMAIN carriers
        THEN [ok |-> FALSE, carrier |-> "-", error |-> UnsupportedCarrier(carrierName)]
        ELSE [ok |-> TRUE, carrier |-> carriers[normalizedName], error |-> NoError]

NoLookup(carrierName) ==
    [carrierName |-> carrierName, called |-> FALSE,
     result |-> [ok |-> FALSE, carrier |-> "-", error |-> NoError]]

(***************************************************************************)
(* UpsAuthManager: the token cache (carriers/ups/ups-auth).                *)
(***************************************************************************)
tokenBuffer == 300000

\* A token endpoint body: {access_token, token_type, expires_in, issued_at}.
TokenResponse(access_token, token_type, expires_in, issued_at) ==
    [access_token |-> access_token, token_type |-> token_type,
     expires_in |-> expires_in, issued_at |-> issued_at]

\* The bodies the token endpoint answers a 2xx with: well formed ones, and
\* ones with a required field absent or of the wrong type.
TokenBodies ==
    {TokenResponse(JStr(a), JStr("Bearer"), JNum(e), JUndef) : a \in {"tok1", "tok2"}, e \in ExpiresIn}
        \cup {TokenResponse(JStr("tok1"), JStr("Bearer"), JNum(3600), JNum(1)),
              TokenResponse(JUndef, JStr("Bearer"), JNum(3600), JUndef),
              TokenResponse(JNum(7), JStr("Bearer"), JNum(3600), JUndef),
              TokenResponse(JStr("tok1"), JUndef, JNum(3600), JUndef),
              TokenResponse(JStr("tok1"), JStr("Bearer"), JUndef, JUndef),
              TokenResponse(JStr("tok1"), JStr("Bearer"), JStr("3600"), JUndef),
              TokenResponse(JStr("tok1"), JStr("Bearer"), JNum(3600), JStr("now"))}

\* TokenResponseSchema.parse(response.data) does not throw.
TokenResponseSchema(data) ==
    /\ data.access_token.t = "string"
    /\ data.token_type.t = "string"
    /\ data.expires_in.t = "number"
    /\ data.issued_at.t \in {"number", "undefined"}

\* The bodies of TokenBodies that parse() rejects.
MalformedTokenBodies == {data \in TokenBodies : ~TokenResponseSchema(data)}

\* CachedToken {accessToken, expiresAt}; present = FALSE is null.
CachedToken(accessToken, expiresAt) ==
    [present |-> TRUE, accessToken |-> accessToken, expiresAt |-> expiresAt]

NullToken == [present |-> FALSE, accessToken |-> "-", expiresAt |-> 0]

NoMeta == [at |-> 0, expires_in |-> 0]

\* isTokenValid(token): now < new Date(token.expiresAt.getTime() - this.tokenBuffer)
isTokenValid_NoBuffer(token, t) == t < token.expiresAt

isTokenValid(token, t) == t < token.expiresAt - tokenBuffer

\* hasValidToken()
hasValidToken == cachedToken.present /\ isTokenValid(cachedToken, now)

\* getAccessToken(): the test that serves the call from the cache.
CacheHit_Never == FALSE

CacheHit == cachedToken.present /\ isTokenValid(cachedToken, now)

\* acquireToken(): the cache entry stored for a parsed token response.
StoredToken_KeepsOld(tokenData, t) ==
    IF cachedToken.present THEN cachedToken
    ELSE CachedToken(tokenData.access_token.s, t + tokenData.expires_in.n * 1000)

StoredToken(tokenData, t) ==
    CachedToken(tokenData.access_token.s, t + tokenData.expires_in.n * 1000)

\* A ZodError thrown by a schema's parse().
ZodError == RawError("ZodError", FALSE)

\* acquireToken(): the catch block.
acquireTokenCatch_AlwaysAuthFailed(error) ==
    IF error = ZodError THEN CarrierIntegrationError("API_ERROR", FALSE)
    ELSE CarrierIntegrationError("AUTH_FAILED", FALSE)

acquireTokenCatch(error) ==
    IF error = ZodError THEN CarrierIntegrationError("API_ERROR", FALSE)
    ELSE IF ~error.raw THEN error
    ELSE CarrierIntegrationError("AUTH_FAILED", FALSE)

(***************************************************************************)
(* Asynchronous calls.  A call is at "idle" before it starts and after it  *)
(* settled, at "tokenInflight" while a token request is awaited and at     *)
(* "tokenSleeping" during a backoff of the token request, at              *)
(* "rateInflight" and "rateSleeping" likewise for the rating request of    *)
(* getRates.  A step that                                                  *)
(* settles a call leaves in settled what the call resolved or rejected     *)
(* with; every other step leaves NoneSettled there.                        *)
(***************************************************************************)
IdleTask ==
    [kind |-> "-", pc |-> "idle", attempt |-> 0, request |-> "-", token |-> "-",
     tokenRequests |-> 0]

\* A call of the given kind that has just been made.
NewTask(kind) == [IdleTask EXCEPT !.kind = kind]

\* The body of a rating answer: whether it has a RateResponse member, the
\* ResponseStatus of it, and its RatedShipment ("one" object, "many" in an
\* array of the given length, or "undefined").
RateBody(hasRateResponse, Code, Description, RatedShipment, shipments) ==
    [RateResponse |-> hasRateResponse, Code |-> Code, Description |-> Description,
     RatedShipment |-> RatedShipment, shipments |-> shipments]

\* No rating answer was received.
NoBody == RateBody(FALSE, JUndef, JUndef, "-", 0)

\* The last step settled no call.
NoneSettled ==
    [caller |-> "-", kind |-> "-", ok |-> FALSE, token |-> "-", error |-> NoError,
     wire |-> NoFault, malformed |-> FALSE, tokenRequests |-> 0,
     request |-> "-", rateRequests |-> 0, quotes |-> 0, healthy |-> FALSE,
     body |-> NoBody, message |-> "-"]

\* The call of caller c resolved; token is the access token it obtained,
\* w the last answer of the wire, n the token requests it issued.
Resolved(c, rec, token, w, n) ==
    [NoneSettled EXCEPT !.caller = c, !.kind = rec.kind, !.ok = TRUE, !.token = token,
                        !.wire = w, !.tokenRequests = n, !.request = rec.request]

\* The call of caller c rejected with an error; w is the last answer of the
\* wire, bad tells that it was a 2xx whose body failed its schema.
Rejected(c, rec, error, w, bad, n) ==
    [NoneSettled EXCEPT !.caller = c, !.kind = rec.kind, !.error = error,
                        !.wire = w, !.malformed = bad, !.tokenRequests = n,
                        !.request = rec.request]

\* UpsCarrier.getRates: the outer catch block.
getRatesCatch_NoResponseBranch(error) ==
    IF ~error.raw THEN error ELSE CarrierIntegrationError("UNKNOWN_ERROR", FALSE)

getRatesCatch_WrapsAll(error) ==
    IF error = NoError THEN error ELSE CarrierIntegrationError("UNKNOWN_ERROR", FALSE)

getRatesCatch(error) ==
    IF ~error.raw THEN error
    ELSE IF error.response THEN CarrierIntegrationError("CARRIER_ERROR", FALSE)
    ELSE CarrierIntegrationError("UNKNOWN_ERROR", FALSE)

\* The shapes of error.response?.data handed to parseUpsError: undefined,
\* a value that is not an object, an object whose response member has no
\* errors array, and one whose errors array is empty, begins with an entry
\* that has a message, or begins with an entry without message.
ErrorDataShapes ==
    {"undefined", "notObject", "noErrors", "errorsEmpty", "errorsMessage",
     "errorsNoMessage"}

\* parseUpsError(errorData): always a CARRIER_ERROR, non-retryable, built
\* without a cause; only the message depends on the data (reading the
\* message of the first entry of an empty errors array throws inside the
\* try block, whose catch falls through to the final return).
parseUpsError(errorData) ==
    [error |-> CarrierIntegrationError("CARRIER_ERROR", FALSE),
     message |-> IF errorData = "errorsMessage" THEN "firstError.message"
                 ELSE IF errorData = "errorsNoMessage" THEN "UPS API error"
                 ELSE "Unknown UPS API error",
     cause |-> NoError]

\* The cause of the error the catch block throws: that of the rethrown error
\* (none in this model), none for parseUpsError, the caught exception for
\* UNKNOWN_ERROR.
getRatesCatchCause(error) ==
    IF ~error.raw THEN NoError
    ELSE IF error.response THEN parseUpsError("undefined").cause
    ELSE error

\* The message of the error the catch block throws ("-" is the rethrown
\* error's own).
getRatesCatchMessage(error, errorData) ==
    IF ~error.raw THEN "-"
    ELSE IF error.response THEN parseUpsError(errorData).message
    ELSE "Unexpected error during rate request"

\* The exceptions that are not CarrierIntegrationError, by constructor name.
RawNames == {"TypeError", "RangeError", "Error", "AxiosError"}

\* Every value the catch block of getRates can be entered with.
CaughtErrors ==
    {CarrierIntegrationError(code, retryable) : code \in ErrorCode, retryable \in BOOLEAN}
        \cup {RawError(name, response) : name \in RawNames, response \in BOOLEAN}

\* An exception about to enter the catch block; errorData is its
\* response?.data.
NoCaught(error, errorData) ==
    [called |-> FALSE, error |-> error, errorData |-> errorData, thrown |-> NoError,
     cause |-> NoError, message |-> "-"]

AuthIdle ==
    /\ now = 0
    /\ cachedToken = NullToken
    /\ tokenMeta = NoMeta
    /\ task = [c \in Tasks |-> IdleTask]
    /\ settled = NoneSettled
    /\ cleared = FALSE

\* What the call does once getAccessToken() has resolved with a token:
\* getAccessToken() itself returns it, healthCheck returns true, getRates
\* maps the request and posts it to the rating endpoint (attempt 0).
OnToken(c, rec, token, w, n) ==
    IF rec.kind = "getRates"
        THEN /\ task' = [task EXCEPT ![c] = [rec EXCEPT !.pc = "rateInflight", !.attempt = 0,
                                                 !.token = token, !.tokenRequests = n]]
             /\ settled' = NoneSettled
    ELSE IF rec.kind = "healthCheck"
        THEN /\ task' = [task EXCEPT ![c] = IdleTask]
             /\ settled' = [Resolved(c, rec, token, w, n) EXCEPT !.healthy = TRUE]
    ELSE /\ task' = [task EXCEPT ![c] = IdleTask]
         /\ settled' = Resolved(c, rec, token, w, n)

OnTokenError_NoHealthCatch(c, rec, error, w, bad, n) ==
    /\ task' = [task EXCEPT ![c] = IdleTask]
    /\ settled' = Rejected(c, rec, error, w, bad, n)

\* What the call does once getAccessToken() has rejected with an error:
\* getAccessToken() itself rejects with it, healthCheck returns false,
\* getRates passes it through its catch block.
OnTokenError(c, rec, error, w, bad, n) ==
    /\ task' = [task EXCEPT ![c] = IdleTask]
    /\ settled' =
        IF rec.kind = "getRates" THEN Rejected(c, rec, getRatesCatch(error), w, bad, n)
        ELSE IF rec.kind = "healthCheck"
            THEN [Resolved(c, rec, "-", w, n) EXCEPT !.malformed = bad, !.healthy = FALSE]
        ELSE Rejected(c, rec, error, w, bad, n)

\* getAccessToken() up to its first await: serve the cached token, or call
\* acquireToken(), which posts the token request (attempt 0).
BeginToken(c, rec) ==
    /\ task[c].pc = "idle"
    /\ IF CacheHit
        THEN OnToken(c, rec, cachedToken.accessToken, NoFault, 0)
        ELSE /\ task' = [task EXCEPT ![c] = [rec EXCEPT !.pc = "tokenInflight", !.attempt = 0]]
             /\ settled' = NoneSettled
    /\ cleared' = FALSE
    /\ UNCHANGED <<now, cachedToken, tokenMeta>>

\* A caller invokes authManager.getAccessToken().
GetAccessToken(c) ==
    /\ BeginToken(c, NewTask("getAccessToken"))
    /\ UNCHANGED <<classifyVars, httpVars, serviceVars>>

\* The token request is answered 2xx with a body that parses: the token is
\* cached and returned.
TokenStore(c) ==
    /\ task[c].pc = "tokenInflight"
    /\ \E w \in WireOutcomes, data \in TokenBodies :
        /\ ClientRequest(w).ok
        /\ TokenResponseSchema(data)
        /\ cachedToken' = StoredToken(data, now)
        /\ tokenMeta' = [at |-> now, expires_in |-> data.expires_in.n]
        /\ OnToken(c, task[c], StoredToken(data, now).accessToken, w, task[c].attempt + 1)
    /\ UNCHANGED <<now, cleared, classifyVars, httpVars, serviceVars>>

\* The token request is answered 2xx with a body that fails the schema:
\* parse() throws a ZodError into the catch block.
TokenMalformed(c) ==
    /\ task[c].pc = "tokenInflight"
    /\ MalformedTokenBodies # {}
    /\ \E w \in WireOutcomes :
        /\ ClientRequest(w).ok
        /\ OnTokenError(c, task[c], acquireTokenCatch(ZodError), w, TRUE, task[c].attempt + 1)
    /\ UNCHANGED <<now, cachedToken, tokenMeta, cleared, classifyVars, httpVars, serviceVars>>

\* The token request fails with a retryable error and retries are left:
\* executeWithRetry sleeps the backoff delay.
TokenBackoff(c) ==
    /\ task[c].pc = "tokenInflight"
    /\ \E w \in WireOutcomes :
        LET r == ClientRequest(w) IN
        /\ ~r.ok
        /\ ShouldRetry(r.error, task[c].attempt, maxRetries)
        /\ task' = [task EXCEPT ![c] = [@ EXCEPT !.pc = "tokenSleeping"]]
    /\ settled' = NoneSettled
    /\ UNCHANGED <<now, cachedToken, tokenMeta, cleared, classifyVars, httpVars, serviceVars>>

\* The backoff timer fires: the token request is posted again.
TokenWake(c) ==
    /\ task[c].pc = "tokenSleeping"
    /\ task' = [task EXCEPT ![c] = [@ EXCEPT !.pc = "tokenInflight", !.attempt = @ + 1]]
    /\ settled' = NoneSettled
    /\ UNCHANGED <<now, cachedToken, tokenMeta, cleared, classifyVars, httpVars, serviceVars>>

\* The token request fails for good: executeWithRetry throws into the catch block.
TokenThrow_ClearsCache(c) ==
    /\ task[c].pc = "tokenInflight"
    /\ \E w \in WireOutcomes :
        LET r == ClientRequest(w) IN
        /\ ~r.ok
        /\ ~ShouldRetry(r.error, task[c].attempt, maxRetries)
        /\ OnTokenError(c, task[c], acquireTokenCatch(r.error), w, FALSE, task[c].attempt + 1)
    /\ cachedToken' = NullToken
    /\ UNCHANGED <<now, tokenMeta, cleared, classifyVars, httpVars, serviceVars>>

TokenThrow(c) ==
    /\ task[c].pc = "tokenInflight"
    /\ \E w \in WireOutcomes :
        LET r == ClientRequest(w) IN
        /\ ~r.ok
        /\ ~ShouldRetry(r.error, task[c].attempt, maxRetries)
        /\ OnTokenError(c, task[c], acquireTokenCatch(r.error), w, FALSE, task[c].attempt + 1)
    /\ UNCHANGED <<now, cachedToken, tokenMeta, cleared, classifyVars, httpVars, serviceVars>>

\* clearToken()
ClearToken ==
    /\ cachedToken' = NullToken
    /\ cleared' = TRUE
    /\ settled' = NoneSettled
    /\ UNCHANGED <<now, tokenMeta, task, classifyVars, httpVars, serviceVars>>

\* Time passes.
Tick ==
    /\ \E t \in ClockInstants : t > now /\ now' = t
    /\ settled' = NoneSettled
    /\ UNCHANGED <<cachedToken, tokenMeta, task, cleared, classifyVars, httpVars, serviceVars>>

\* The service before any call on it.
NoService ==
    [op |-> "-", carrierNames |-> <<>>, request |-> "-", inv |-> <<>>, results |-> <<>>,
     pc |-> "idle", deadline |-> FALSE]

CatchIdle == caught = NoCaught(NoError, "undefined")

ServiceIdle ==
    /\ lookup = NoLookup(<<>>)
    /\ service = NoService
    /\ mapped = NoMapping(NoShipments)
    /\ CatchIdle

InitAuth ==
    /\ ClassifyIdle
    /\ HttpIdle
    /\ maxRetries = MaxRetriesAuth
    /\ AuthIdle
    /\ ServiceIdle

NextAuth ==
    \/ \E c \in Tasks : GetAccessToken(c)
    \/ \E c \in Tasks : TokenStore(c)
    \/ \E c \in Tasks : TokenMalformed(c)
    \/ \E c \in Tasks : TokenBackoff(c)
    \/ \E c \in Tasks : TokenWake(c)
    \/ \E c \in Tasks : TokenThrow(c)
    \/ ClearToken
    \/ Tick

SpecAuth == InitAuth /\ [][NextAuth]_vars

(***************************************************************************)
(* UpsCarrier: getRates and healthCheck.                                   *)
(***************************************************************************)
\* An address: the lengths of its string fields (state -1 when absent).
Address(street1, city, state, postalCode, countryCode) ==
    [street1 |-> street1, city |-> city, state |-> state, postalCode |-> postalCode,
     countryCode |-> countryCode]

AddressSchema(a) ==
    /\ a.street1 >= 1
    /\ a.city >= 1
    /\ (a.state = -1 \/ a.state = 2)
    /\ a.postalCode >= 1
    /\ a.countryCode = 2

\* Absent dimensions of a package.
NoDimensions == [present |-> FALSE, length |-> 0, width |-> 0, height |-> 0]

Dimensions(length, width, height) ==
    [present |-> TRUE, length |-> length, width |-> width, height |-> height]

DimensionsSchema(d) == d.length > 0 /\ d.width > 0 /\ d.height > 0

WeightSchema(value) == value > 0

\* A package: its weight value and its optional dimensions.
Package(weight, dimensions) == [weight |-> weight, dimensions |-> dimensions]

PackageSchema(p) ==
    /\ WeightSchema(p.weight)
    /\ (p.dimensions.present => DimensionsSchema(p.dimensions))

RateRequest(origin, destination, packages) ==
    [origin |-> origin, destination |-> destination, packages |-> packages]

RateRequestSchema_NoMinPackages(r) ==
    /\ AddressSchema(r.origin)
    /\ AddressSchema(r.destination)
    /\ \A i \in 1..Len(r.packages) : PackageSchema(r.packages[i])

RateRequestSchema(r) ==
    /\ AddressSchema(r.origin)
    /\ AddressSchema(r.destination)
    /\ Len(r.packages) >= 1
    /\ \A i \in 1..Len(r.packages) : PackageSchema(r.packages[i])

\* The requests callers hand to getRates, by name.
RequestNames ==
    {"onePackage", "twoPackages", "noPackages", "badCountry", "noStreet", "zeroWeight",
     "flatBox"}

Request(name) ==
    LET us == Address(10, 8, 2, 5, 2)
        de == Address(12, 6, -1, 5, 2)
        box == Package(5, Dimensions(10, 8, 6))
        bag == Package(2, NoDimensions)
    IN CASE name = "onePackage" -> RateRequest(us, de, <<box>>)
         [] name = "twoPackages" -> RateRequest(us, us, <<box, bag>>)
         [] name = "noPackages" -> RateRequest(us, de, <<>>)
         [] name = "badCountry" -> RateRequest(us, Address(12, 6, -1, 5, 3), <<box>>)
         [] name = "noStreet" -> RateRequest(Address(0, 8, 2, 5, 2), de, <<bag>>)
         [] name = "zeroWeight" -> RateRequest(us, de, <<box, Package(0, NoDimensions)>>)
         [] OTHER -> RateRequest(us, de, <<Package(5, Dimensions(10, 0, 6))>>)

\* CarrierIntegrationError.fromZodError
fromZodError == CarrierIntegrationError("VALIDATION_ERROR", FALSE)

RateBodies ==
    {RateBody(TRUE, JStr("1"), JStr("Success"), "one", 1),
     RateBody(TRUE, JStr("1"), JStr("Success"), "many", 2),
     RateBody(TRUE, JStr("1"), JStr("Success"), "many", 0),
     RateBody(TRUE, JStr("0"), JStr("Failure"), "one", 1),
     RateBody(TRUE, JStr("0"), JStr(""), "many", 0),
     RateBody(TRUE, JStr("0"), JStr("Failure"), "undefined", 0),
     RateBody(TRUE, JUndef, JStr("Success"), "one", 1),
     RateBody(TRUE, JNum(1), JStr("Success"), "one", 1),
     RateBody(FALSE, JUndef, JUndef, "undefined", 0)}

UpsRateResponseSchema_NoShipmentCheck(body) ==
    /\ body.RateResponse
    /\ body.Code.t = "string"
    /\ body.Description.t = "string"

UpsRateResponseSchema(body) ==
    /\ body.RateResponse
    /\ body.Code.t = "string"
    /\ body.Description.t = "string"
    /\ body.RatedShipment \in {"one", "many"}

\* The RatedShipment member of a body that passed the schema.
RatedShipmentOf(body) ==
    LET codes == <<"03", "01", "02">> IN
    IF body.RatedShipment = "many"
        THEN ShipmentArray([i \in 1..body.shipments |-> Shipment(codes[i])])
        ELSE OneShipment(Shipment(codes[1]))

\* The number of quotes mapUpsResponseToRates makes of a parsed answer.
mapUpsResponseToRates(body) == Len(mapQuotes(RatedShipmentOf(body)))

\* What getRates does with the body of a 2xx rating answer: the error it
\* throws, or NoError when it returns the mapped quotes.
RateOutcome(body) ==
    IF ~UpsRateResponseSchema(body) THEN CarrierIntegrationError("API_ERROR", FALSE)
    ELSE IF body.Code.s # "1" THEN CarrierIntegrationError("CARRIER_ERROR", FALSE)
    ELSE NoError

\* The message of the error getRates throws for the body of a 2xx rating
\* answer ("-" when it throws none).
RateMessage(body) ==
    IF ~UpsRateResponseSchema(body) THEN "Invalid response format from UPS"
    ELSE IF body.Code.s # "1"
        THEN (IF body.Description.s # "" THEN body.Description.s ELSE "UPS returned an error")
    ELSE "-"

\* The callers of the carrier in Spec.
Callers == {"A"}

\* A caller invokes carrier.getRates(request): the request is validated
\* first, then the token is obtained.
GetRates(c) ==
    /\ task[c].pc = "idle"
    /\ \E name \in RequestNames :
        LET rec == [NewTask("getRates") EXCEPT !.request = name] IN
        IF RateRequestSchema(Request(name))
            THEN BeginToken(c, rec)
            ELSE /\ settled' = Rejected(c, rec, fromZodError, NoFault, FALSE, 0)
                 /\ UNCHANGED <<task, cleared, now, cachedToken, tokenMeta>>
    /\ UNCHANGED <<classifyVars, httpVars, serviceVars>>

\* A caller invokes carrier.healthCheck().
HealthCheck(c) ==
    /\ BeginToken(c, NewTask("healthCheck"))
    /\ UNCHANGED <<classifyVars, httpVars, serviceVars>>

\* The rating request is answered 2xx: the body is parsed and checked, and
\* getRates returns the quotes or throws.
RateReturn(c) ==
    /\ task[c].pc = "rateInflight"
    /\ \E w \in WireOutcomes, body \in RateBodies :
        LET rec == task[c]
            error == getRatesCatch(RateOutcome(body))
            done == IF error = NoError
                        THEN [Resolved(c, rec, rec.token, w, rec.tokenRequests)
                                EXCEPT !.quotes = mapUpsResponseToRates(body)]
                        ELSE Rejected(c, rec, error, w, ~UpsRateResponseSchema(body),
                                      rec.tokenRequests)
        IN /\ ClientRequest(w).ok
           /\ settled' = [done EXCEPT !.rateRequests = rec.attempt + 1, !.body = body,
                                       !.message = RateMessage(body)]
    /\ task' = [task EXCEPT ![c] = IdleTask]
    /\ UNCHANGED <<now, cachedToken, tokenMeta, cleared, classifyVars, httpVars, serviceVars>>

\* The rating request fails with a retryable error and retries are left.
RateBackoff(c) ==
    /\ task[c].pc = "rateInflight"
    /\ \E w \in WireOutcomes :
        LET r == ClientRequest(w) IN
        /\ ~r.ok
        /\ ShouldRetry(r.error, task[c].attempt, maxRetries)
        /\ task' = [task EXCEPT ![c] = [@ EXCEPT !.pc = "rateSleeping"]]
    /\ settled' = NoneSettled
    /\ UNCHANGED <<now, cachedToken, tokenMeta, cleared, classifyVars, httpVars, serviceVars>>

\* The backoff timer fires: the rating request is posted again.
RateWake(c) ==
    /\ task[c].pc = "rateSleeping"
    /\ task' = [task EXCEPT ![c] = [@ EXCEPT !.pc = "rateInflight", !.attempt = @ + 1]]
    /\ settled' = NoneSettled
    /\ UNCHANGED <<now, cachedToken, tokenMeta, cleared, classifyVars, httpVars, serviceVars>>

\* The rating request fails for good: executeWithRetry throws into the
\* catch block of getRates.
RateThrow(c) ==
    /\ task[c].pc = "rateInflight"
    /\ \E w \in WireOutcomes :
        LET r == ClientRequest(w)
            rec == task[c]
        IN /\ ~r.ok
           /\ ~ShouldRetry(r.error, rec.attempt, maxRetries)
           /\ settled' = [Rejected(c, rec, getRatesCatch(r.error), w, FALSE, rec.tokenRequests)
                            EXCEPT !.rateRequests = rec.attempt + 1]
    /\ task' = [task EXCEPT ![c] = IdleTask]
    /\ UNCHANGED <<now, cachedToken, tokenMeta, cleared, classifyVars, httpVars, serviceVars>>

Init ==
    /\ ClassifyIdle
    /\ HttpIdle
    /\ maxRetries \in 0..MaxRetriesAdapter
    /\ AuthIdle
    /\ ServiceIdle

Next ==
    \/ \E c \in Callers : GetRates(c)
    \/ \E c \in Callers : HealthCheck(c)
    \/ \E c \in Callers : TokenStore(c)
    \/ \E c \in Callers : TokenMalformed(c)
    \/ \E c \in Callers : TokenBackoff(c)
    \/ \E c \in Callers : TokenWake(c)
    \/ \E c \in Callers : TokenThrow(c)
    \/ \E c \in Callers : RateReturn(c)
    \/ \E c \in Callers : RateBackoff(c)
    \/ \E c \in Callers : RateWake(c)
    \/ \E c \in Callers : RateThrow(c)
    \/ Tick

Spec == Init /\ [][Next]_vars

(***************************************************************************)
(* CarrierIntegrationService (index).  Every service call creates its      *)
(* adapter through the factory, so each invocation of a carrier runs on an *)
(* UpsCarrier instance of its own, with an UpsAuthManager of its own.      *)
(***************************************************************************)
\* The carrier names and the requests callers hand to the service.
ServiceNames == {<<"u", "p", "s">>, <<"U", "P", "S">>, <<"x">>}

CarrierLists == UNION {[1..n -> ServiceNames] : n \in {0, 1, 2}}

ServiceRequests == {"onePackage", "noPackages"}

\* The answers of the wire, the token bodies and the rating bodies the
\* invocations of the service are answered with.
ServiceWire == {w \in WireOutcomes : w.hasResponse /\ w.status \in {200, 401, 503}}

ServiceTokenBodies ==
    {data \in TokenBodies : data.access_token = JStr("tok1") /\ data.issued_at = JUndef
                             /\ data.expires_in = JNum(3600)}

ServiceRateBodies ==
    {body \in RateBodies : body.RatedShipment \in {"one", "undefined"}
                            \/ body.shipments = 2}

\* What an invocation resolved or rejected with.
Outcome(ok, quotes, healthy, error) ==
    [ok |-> ok, quotes |-> quotes, healthy |-> healthy, error |-> error]

NoOutcome == Outcome(FALSE, 0, FALSE, NoError)

\* One invocation of carrier.getRates or carrier.healthCheck made by the
\* service: the name it was asked for, whether createCarrier constructed an
\* adapter for it, the cachedToken of that adapter's UpsAuthManager, where
\* its call is at, the requests it has posted and its outcome once settled.
Invocation_SharedManager(carrierName, kind) ==
    [carrierName |-> carrierName, kind |-> kind, adapter |-> FALSE,
     cachedToken |-> IF Len(service.inv) > 0 THEN service.inv[1].cachedToken ELSE NullToken,
     pc |-> "created", attempt |-> 0,
     tokenRequests |-> 0, rateRequests |-> 0, outcome |-> NoOutcome]

Invocation(carrierName, kind) ==
    [carrierName |-> carrierName, kind |-> kind, adapter |-> FALSE,
     cachedToken |-> NullToken, pc |-> "created", attempt |-> 0,
     tokenRequests |-> 0, rateRequests |-> 0, outcome |-> NoOutcome]

InvResolved(iv, outcome) ==
    [iv EXCEPT !.pc = "resolved", !.attempt = 0, !.outcome = outcome]

InvRejected(iv, error) ==
    [iv EXCEPT !.pc = "rejected", !.attempt = 0,
               !.outcome = Outcome(FALSE, 0, FALSE, error)]

InvSettled(iv) == iv.pc \in {"resolved", "rejected"}

\* getAccessToken() rejected inside the adapter call.
InvTokenError(iv, error) ==
    IF iv.kind = "healthCheck" THEN InvResolved(iv, Outcome(TRUE, 0, FALSE, NoError))
    ELSE InvRejected(iv, getRatesCatch(error))

\* getAccessToken() resolved inside the adapter call.
InvToken(iv) ==
    IF iv.kind = "healthCheck" THEN InvResolved(iv, Outcome(TRUE, 0, TRUE, NoError))
    ELSE [iv EXCEPT !.pc = "rateInflight", !.attempt = 0, !.rateRequests = @ + 1]

\* The synchronous part of service.getRates / checkCarrierHealth:
\* createCarrier, then the adapter call up to its first await.
StartInvocation(carrierName, kind, request) ==
    LET made == createCarrier(carrierName)
        iv == [Invocation(carrierName, kind) EXCEPT !.adapter = made.ok]
    IN IF ~made.ok THEN InvRejected(iv, made.error)
       ELSE IF kind = "getRates" /\ ~RateRequestSchema(Request(request))
           THEN InvRejected(iv, fromZodError)
       ELSE IF iv.cachedToken.present /\ isTokenValid(iv.cachedToken, now)
           THEN InvToken(iv)
       ELSE [iv EXCEPT !.pc = "tokenInflight", !.attempt = 0, !.tokenRequests = @ + 1]

\* The callback shopRates maps over the names: what its promise settles
\* as for an outcome of getRates, and whether it sets the entry.
callback_NoCatch(outcome) ==
    IF outcome.ok THEN [state |-> "resolved", set |-> TRUE]
    ELSE [state |-> "rejected", set |-> FALSE]

callback(outcome) == [state |-> "resolved", set |-> TRUE]

MapSet_Replace(map, key, value) == [k \in {key} |-> value]

MapSet_LowerCaseKey(map, key, value) ==
    [k \in DOMAIN map \cup {toLowerCase(key)} |->
        IF k = toLowerCase(key) THEN value ELSE map[k]]

\* Map.prototype.set
MapSet(map, key, value) ==
    [k \in DOMAIN map \cup {key} |-> IF k = key THEN value ELSE map[k]]

\* Promise.all over the callbacks of the invocations.
PromiseAll(inv) ==
    IF \E i \in 1..Len(inv) : InvSettled(inv[i]) /\ callback(inv[i].outcome).state = "rejected"
        THEN "rejected"
    ELSE IF \A i \in 1..Len(inv) : InvSettled(inv[i]) THEN "resolved"
    ELSE "pending"

\* The results map after the callbacks of the invocations from..Len(inv)
\* that have settled ran, in order.
RECURSIVE SetSettled(_, _, _)
SetSettled(map, inv, from) ==
    IF from > Len(inv) THEN map
    ELSE IF InvSettled(inv[from]) /\ callback(inv[from].outcome).set
        THEN SetSettled(MapSet(map, inv[from].carrierName, inv[from].outcome), inv, from + 1)
    ELSE SetSettled(map, inv, from + 1)

\* The promise of the service call, given its invocations: getRates and
\* checkCarrierHealth return the promise of their one invocation, shopRates
\* awaits Promise.all and returns the map.
ServicePromise(op, inv) ==
    IF op = "shopRates" THEN PromiseAll(inv)
    ELSE IF ~InvSettled(inv[1]) THEN "pending"
    ELSE inv[1].pc

\* A call on the service starts: its invocations run their synchronous
\* part in the order of the names, the callbacks of those that settled in
\* it run, and the promise of the call settles if nothing is awaited.
StartService(op, carrierNames, request) ==
    LET kind == IF op = "checkCarrierHealth" THEN "healthCheck" ELSE "getRates"
        inv == [i \in 1..Len(carrierNames) |-> StartInvocation(carrierNames[i], kind, request)]
    IN /\ service.pc # "pending"
       /\ service' = [op |-> op, carrierNames |-> carrierNames, request |-> request,
                      inv |-> inv,
                      results |-> IF op = "shopRates" THEN SetSettled(<<>>, inv, 1) ELSE <<>>,
                      pc |-> ServicePromise(op, inv), deadline |-> FALSE]
       /\ UNCHANGED <<lookup, mapped, caught, classifyVars, httpVars, authVars>>

\* service.getRates(carrierName, request)
ServiceGetRates ==
    \E carrierName \in ServiceNames, request \in ServiceRequests :
        StartService("getRates", <<carrierName>>, request)

\* service.checkCarrierHealth(carrierName)
CheckCarrierHealth ==
    \E carrierName \in ServiceNames : StartService("checkCarrierHealth", <<carrierName>>, "-")

\* service.shopRates(carrierNames, request)
ShopRates ==
    \E carrierNames \in CarrierLists, request \in ServiceRequests :
        StartService("shopRates", carrierNames, request)

\* Invocation i takes a step to iv: if that settles it, its callback runs,
\* and the promise of the service call settles when it is decided.
Deliver(i, iv) ==
    LET inv == [service.inv EXCEPT ![i] = iv] IN
    /\ service' =
        [service EXCEPT
            !.inv = inv,
            !.results = IF service.op = "shopRates" /\ InvSettled(iv) /\ callback(iv.outcome).set
                            THEN MapSet(@, iv.carrierName, iv.outcome)
                            ELSE @,
            !.pc = IF @ = "pending" THEN ServicePromise(service.op, inv) ELSE @]
    /\ UNCHANGED <<lookup, mapped, caught, classifyVars, httpVars, authVars>>

\* The steps of an invocation: those of the token request ...
SvcTokenStore(i) ==
    /\ service.inv[i].pc = "tokenInflight"
    /\ \E w \in ServiceWire, data \in ServiceTokenBodies :
        /\ ClientRequest(w).ok
        /\ TokenResponseSchema(data)
        /\ Deliver(i, InvToken([service.inv[i] EXCEPT !.cachedToken = StoredToken(data, now)]))

SvcTokenMalformed(i) ==
    /\ service.inv[i].pc = "tokenInflight"
    /\ MalformedTokenBodies # {}
    /\ \E w \in ServiceWire :
        /\ ClientRequest(w).ok
        /\ Deliver(i, InvTokenError(service.inv[i], acquireTokenCatch(ZodError)))

SvcTokenBackoff(i) ==
    /\ service.inv[i].pc = "tokenInflight"
    /\ \E w \in ServiceWire :
        /\ ~ClientRequest(w).ok
        /\ ShouldRetry(ClientRequest(w).error, service.inv[i].attempt, maxRetries)
        /\ Deliver(i, [service.inv[i] EXCEPT !.pc = "tokenSleeping"])

SvcTokenWake_SameAttempt(i) ==
    /\ service.inv[i].pc = "tokenSleeping"
    /\ Deliver(i, [service.inv[i] EXCEPT !.pc = "tokenInflight"])

SvcTokenWake(i) ==
    /\ service.inv[i].pc = "tokenSleeping"
    /\ Deliver(i, [service.inv[i] EXCEPT !.pc = "tokenInflight", !.attempt = @ + 1,
                                        !.tokenRequests = @ + 1])

SvcTokenThrow(i) ==
    /\ service.inv[i].pc = "tokenInflight"
    /\ \E w \in ServiceWire :
        /\ ~ClientRequest(w).ok
        /\ ~ShouldRetry(ClientRequest(w).error, service.inv[i].attempt, maxRetries)
        /\ Deliver(i, InvTokenError(service.inv[i], acquireTokenCatch(ClientRequest(w).error)))

\* ... and those of the rating request.
SvcRateReturn(i) ==
    /\ service.inv[i].pc = "rateInflight"
    /\ \E w \in ServiceWire, body \in ServiceRateBodies :
        LET error == getRatesCatch(RateOutcome(body)) IN
        /\ ClientRequest(w).ok
        /\ Deliver(i, IF error = NoError
                        THEN InvResolved(service.inv[i],
                                         Outcome(TRUE, mapUpsResponseToRates(body), FALSE, NoError))
                        ELSE InvRejected(service.inv[i], error))

SvcRateBackoff(i) ==
    /\ service.inv[i].pc = "rateInflight"
    /\ \E w \in ServiceWire :
        /\ ~ClientRequest(w).ok
        /\ ShouldRetry(ClientRequest(w).error, service.inv[i].attempt, maxRetries)
        /\ Deliver(i, [service.inv[i] EXCEPT !.pc = "rateSleeping"])

SvcRateWake(i) ==
    /\ service.inv[i].pc = "rateSleeping"
    /\ Deliver(i, [service.inv[i] EXCEPT !.pc = "rateInflight", !.attempt = @ + 1,
                                        !.rateRequests = @ + 1])

SvcRateThrow(i) ==
    /\ service.inv[i].pc = "rateInflight"
    /\ \E w \in ServiceWire :
        /\ ~ClientRequest(w).ok
        /\ ~ShouldRetry(ClientRequest(w).error, service.inv[i].attempt, maxRetries)
        /\ Deliver(i, InvRejected(service.inv[i], getRatesCatch(ClientRequest(w).error)))

\* The deadline the caller of shopRates set for the call elapses.  shopRates
\* takes the names and the request only and starts no timer of its own, so
\* nothing in the service observes it: deadline is history.
DeadlineElapses ==
    /\ service.op = "shopRates"
    /\ service.pc = "pending"
    /\ ~service.deadline
    /\ service' = [service EXCEPT !.deadline = TRUE]
    /\ UNCHANGED <<lookup, mapped, caught, classifyVars, httpVars, authVars>>

InitService ==
    /\ ClassifyIdle
    /\ HttpIdle
    /\ maxRetries = MaxRetriesAuth
    /\ AuthIdle
    /\ ServiceIdle

NextService ==
    \/ ServiceGetRates
    \/ CheckCarrierHealth
    \/ ShopRates
    \/ \E i \in 1..Len(service.inv) : SvcTokenStore(i)
    \/ \E i \in 1..Len(service.inv) : SvcTokenMalformed(i)
    \/ \E i \in 1..Len(service.inv) : SvcTokenBackoff(i)
    \/ \E i \in 1..Len(service.inv) : SvcTokenWake(i)
    \/ \E i \in 1..Len(service.inv) : SvcTokenThrow(i)
    \/ \E i \in 1..Len(service.inv) : SvcRateReturn(i)
    \/ \E i \in 1..Len(service.inv) : SvcRateBackoff(i)
    \/ \E i \in 1..Len(service.inv) : SvcRateWake(i)
    \/ \E i \in 1..Len(service.inv) : SvcRateThrow(i)
    \/ DeadlineElapses

SpecService == InitService /\ [][NextService]_vars

\* A step of invocation i: the attempt it awaits settles (with an answer, a
\* timeout or a network fault), or the backoff timer it awaits fires.
InvStep(i) ==
    /\ i \in 1..Len(service.inv)
    /\ \/ SvcTokenStore(i) \/ SvcTokenMalformed(i) \/ SvcTokenBackoff(i)
       \/ SvcTokenWake(i) \/ SvcTokenThrow(i)
       \/ SvcRateReturn(i) \/ SvcRateBackoff(i) \/ SvcRateWake(i) \/ SvcRateThrow(i)

\* SpecService, for the retry budgets of FairRetries, under the assumption
\* that every HTTP attempt eventually settles (axios enforces
\* config.http.timeoutMs on each) and every sleep timer fires.
FairRetries == {1}

InitServiceFair ==
    /\ ClassifyIdle
    /\ HttpIdle
    /\ maxRetries \in FairRetries
    /\ AuthIdle
    /\ ServiceIdle

SpecServiceFair ==
    /\ InitServiceFair
    /\ [][NextService]_vars
    /\ WF_vars(InvStep(1))
    /\ WF_vars(InvStep(2))

\* SpecFactory: createCarrier applied to every name.
InitFactory ==
    /\ ClassifyIdle
    /\ HttpIdle
    /\ maxRetries = 0
    /\ AuthIdle
    /\ lookup \in {NoLookup(carrierName) : carrierName \in CarrierNames}
    /\ service = NoService
    /\ mapped = NoMapping(NoShipments)
    /\ CatchIdle

CreateCarrier ==
    /\ ~lookup.called
    /\ lookup' = [lookup EXCEPT !.called = TRUE, !.result = createCarrier(lookup.carrierName)]
    /\ UNCHANGED <<service, mapped, caught, classifyVars, httpVars, authVars>>

NextFactory == CreateCarrier

SpecFactory == InitFactory /\ [][NextFactory]_vars

\* SpecMapper: mapUpsResponseToRates applied to every RatedShipment.
InitMapper ==
    /\ ClassifyIdle
    /\ HttpIdle
    /\ maxRetries = 0
    /\ AuthIdle
    /\ lookup = NoLookup(<<>>)
    /\ service = NoService
    /\ mapped \in {NoMapping(RatedShipment) : RatedShipment \in RatedShipments}
    /\ CatchIdle

MapUpsResponseToRates ==
    /\ ~mapped.called
    /\ mapped' = [mapped EXCEPT !.called = TRUE, !.quotes = mapQuotes(mapped.RatedShipment)]
    /\ UNCHANGED <<lookup, service, caught, classifyVars, httpVars, authVars>>

NextMapper == MapUpsResponseToRates

SpecMapper == InitMapper /\ [][NextMapper]_vars

\* SpecCatch: the catch block of getRates entered with every exception.
InitCatch ==
    /\ ClassifyIdle
    /\ HttpIdle
    /\ maxRetries = 0
    /\ AuthIdle
    /\ lookup = NoLookup(<<>>)
    /\ service = NoService
    /\ mapped = NoMapping(NoShipments)
    /\ caught \in {NoCaught(error, errorData) :
                        error \in CaughtErrors, errorData \in ErrorDataShapes}
    /\ (caught.error.raw /\ caught.error.response) \/ caught.errorData = "undefined"

\* catch (error) { ... } of UpsCarrier.getRates
GetRatesCatch ==
    /\ ~caught.called
    /\ caught' = [caught EXCEPT !.called = TRUE,
                                !.thrown = getRatesCatch(caught.error),
                                !.cause = getRatesCatchCause(caught.error),
                                !.message = getRatesCatchMessage(caught.error, caught.errorData)]
    /\ UNCHANGED <<lookup, service, mapped, classifyVars, httpVars, authVars>>

NextCatch == GetRatesCatch

SpecCatch == InitCatch /\ [][NextCatch]_vars

InitClassify ==
    /\ fault \in AllFaults /\ classified = NoError
    /\ maxRetries = 0 /\ HttpIdle /\ AuthIdle /\ ServiceIdle

\* The interceptor hands the fault to handleAxiosError, which throws its classification.
Classify ==
    /\ classified = NoError
    /\ classified' = handleAxiosError(fault)
    /\ UNCHANGED <<fault, httpVars, authVars, serviceVars>>

NextClassify == Classify

SpecClassify == InitClassify /\ [][NextClassify]_vars

(***************************************************************************)
(* SpecHttp: one HttpClient.get / post call.                               *)
(***************************************************************************)
InitHttp ==
    /\ ClassifyIdle
    /\ maxRetries \in 0..MaxRetriesBound
    /\ HttpIdle
    /\ AuthIdle
    /\ ServiceIdle

\* get()/post(): executeWithRetry(operation, 0) invokes operation() and awaits it.
HttpCall ==
    /\ http.pc = "idle"
    /\ http' = [http EXCEPT !.pc = "inflight", !.attempt = 0, !.attempts = 1]
    /\ UNCHANGED <<maxRetries, classifyVars, authVars, serviceVars>>

\* The awaited attempt settles with a 2xx response: executeWithRetry returns it.
HttpReturn ==
    /\ http.pc = "inflight"
    /\ \E w \in WireOutcomes :
        LET r == ClientRequest(w) IN
        /\ r.ok
        /\ http' = [http EXCEPT !.pc = "returned", !.wire = w, !.status = r.status]
    /\ UNCHANGED <<maxRetries, classifyVars, authVars, serviceVars>>

\* The awaited attempt rejects and the catch block decides to retry:
\* the delay is computed and sleep(delay) is awaited.
HttpBackoff ==
    /\ http.pc = "inflight"
    /\ \E w \in WireOutcomes, jitter \in Jitters :
        LET r == ClientRequest(w) IN
        /\ ~r.ok
        /\ ShouldRetry(r.error, http.attempt, maxRetries)
        /\ http' = [http EXCEPT !.pc = "sleeping", !.wire = w, !.error = r.error,
                       !.delays = Append(@, calculateBackoffDelay(http.attempt, jitter))]
    /\ UNCHANGED <<maxRetries, classifyVars, authVars, serviceVars>>

\* The awaited attempt rejects and the catch block rethrows the error.
HttpThrow ==
    /\ http.pc = "inflight"
    /\ \E w \in WireOutcomes :
        LET r == ClientRequest(w) IN
        /\ ~r.ok
        /\ ~ShouldRetry(r.error, http.attempt, maxRetries)
        /\ http' = [http EXCEPT !.pc = "thrown", !.wire = w, !.error = r.error,
                       !.thrown = r.error]
    /\ UNCHANGED <<maxRetries, classifyVars, authVars, serviceVars>>

\* The sleep timer fires: executeWithRetry(operation, attempt + 1) invokes operation().
HttpWake ==
    /\ http.pc = "sleeping"
    /\ http' = [http EXCEPT !.pc = "inflight", !.attempt = @ + 1, !.attempts = @ + 1]
    /\ UNCHANGED <<maxRetries, classifyVars, authVars, serviceVars>>

NextHttp == HttpCall \/ HttpReturn \/ HttpBackoff \/ HttpThrow \/ HttpWake

SpecHttp == InitHttp /\ [][NextHttp]_vars

(***************************************************************************)
(* C3: classification is total and follows the stated priority order.      *)
(***************************************************************************)
IsTimeoutCode(f) == f.code \in TimeoutCodes

RetryableKinds == {"TIMEOUT", "NETWORK_ERROR", "RATE_LIMIT_EXCEEDED", "SERVICE_UNAVAILABLE"}

\* C3: every classified fault gets exactly one kind of the taxonomy, chosen in
\* the priority order timeout code, no response, 429, 401, 403, >= 500,
\* other 4xx, anything else; retryable holds exactly for the four
\* transient kinds.
C3_ClassificationPriority ==
    classified # NoError =>
        /\ ~classified.raw
        /\ classified.code \in ErrorCode
        /\ classified.retryable <=> classified.code \in RetryableKinds
        /\ IsTimeoutCode(fault) => classified.code = "TIMEOUT"
        /\ ~IsTimeoutCode(fault) /\ ~fault.hasResponse => classified.code = "NETWORK_ERROR"
        /\ ~IsTimeoutCode(fault) /\ fault.hasResponse =>
            /\ fault.status = 429 => classified.code = "RATE_LIMIT_EXCEEDED"
            /\ fault.status = 401 => classified.code = "AUTH_FAILED"
            /\ fault.status = 403 => classified.code = "AUTH_INVALID_CREDENTIALS"
            /\ fault.status >= 500 => classified.code = "SERVICE_UNAVAILABLE"
            /\ fault.status \in (400..499) \ {401, 403, 429} => classified.code = "API_ERROR"
            /\ fault.status < 400 => classified.code = "UNKNOWN_ERROR"

\* A fault carrying both a timeout code and a 401 response has been classified:
\* the timeout rule took priority.
C3_Witness ==
    /\ IsTimeoutCode(fault) /\ fault.hasResponse /\ fault.status = 401
    /\ classified.code = "TIMEOUT"

(***************************************************************************)
(* C1, C2, C4: the retry loop of one call.                                 *)
(***************************************************************************)
\* C1: one get/post call performs at most maxRetries + 1 attempts.
C1_AttemptsBounded == http.attempts <= maxRetries + 1

\* The retry budget was used up: maxRetries + 1 attempts were made, with
\* maxRetries > 0, and the call failed with a retryable error.
C1_Witness ==
    /\ maxRetries > 0
    /\ http.pc = "thrown"
    /\ http.thrown.retryable
    /\ http.attempts = maxRetries + 1

\* The call with maxRetries = 0 that met a 429 was attempted exactly once.
C1_WitnessNoRetry ==
    maxRetries = 0 /\ http.pc = "thrown" /\ http.thrown.code = "RATE_LIMIT_EXCEEDED"

\* C2: once an attempt failed with a non-retryable error the call has failed
\* with that very error, no backoff delay was slept after it, no further
\* attempt can follow, and when it was the first attempt exactly one attempt
\* was made.
C2_NonRetryableStops ==
    (http.error # NoError /\ ~http.error.retryable) =>
        /\ http.pc = "thrown"
        /\ http.thrown = http.error
        /\ Len(http.delays) = http.attempts - 1
        /\ http.attempt = 0 => http.attempts = 1
        /\ ~ENABLED NextHttp

\* A non-retryable 4xx on the first attempt although retries are configured.
C2_Witness ==
    /\ maxRetries >= 2
    /\ http.pc = "thrown"
    /\ http.thrown.code = "API_ERROR"
    /\ http.attempts = 1
    /\ http.delays = <<>>

\* C4: the call succeeds exactly when its final attempt received a 2xx
\* response, returning that response's status; otherwise it fails with a
\* classified CarrierIntegrationError, never with a raw transport fault.
C4_SuccessIff2xx ==
    /\ http.pc = "returned" =>
        /\ http.wire.hasResponse /\ http.wire.status \in 200..299
        /\ http.status = http.wire.status
        /\ http.thrown = NoError
    /\ http.pc = "thrown" =>
        /\ ~(http.wire.hasResponse /\ http.wire.status \in 200..299)
        /\ ~http.thrown.raw
        /\ http.thrown.code \in ErrorCode
    /\ (http.pc \in {"returned", "thrown"} /\ http.wire.hasResponse
            /\ http.wire.status \in 200..299) => http.pc = "returned"

\* A call that failed on a non-error, non-2xx status (304) after a retry.
C4_Witness ==
    /\ http.pc = "thrown"
    /\ http.wire.hasResponse /\ http.wire.status = 304
    /\ http.attempts = 2

(***************************************************************************)
(* C5 - C9: the token cache.                                               *)
(***************************************************************************)
\* Caller c makes a call in this step: its idle call leaves "idle", or
\* settles at once.
Calls(c) ==
    /\ task[c].pc = "idle"
    /\ task'[c].pc # "idle" \/ settled'.caller = c

\* The last step returned a token to caller c of getAccessToken().
ReturnedTokenTo(c) ==
    settled.caller = c /\ settled.kind = "getAccessToken" /\ settled.ok

\* C5: when getAccessToken() has just returned a token that is valid under
\* the buffer rule and the same caller calls again at once (no time passed,
\* no clearToken()), the second call returns the same token string and
\* issues no network call.
C5_CachedTokenReused ==
    [][\A c \in Tasks :
        (/\ ReturnedTokenTo(c)
         /\ cachedToken.present
         /\ cachedToken.accessToken = settled.token
         /\ now < cachedToken.expiresAt - 300000
         /\ Calls(c))
        => /\ settled'.caller = c
           /\ settled'.ok
           /\ settled'.token = settled.token
           /\ settled'.tokenRequests = 0
           /\ \A d \in Tasks : task'[d] = task[d]]_vars

\* A call was served from the cache without a token request.
C5_Witness ==
    \E c \in Tasks :
        /\ ReturnedTokenTo(c)
        /\ settled.tokenRequests = 0
        /\ settled.token = cachedToken.accessToken
        /\ \A d \in Tasks : task[d].pc = "idle"

\* C6: the first getAccessToken() call started after a clearToken() posts a
\* token request, whatever else is in flight.
C6_AcquiresAfterClear ==
    [][\A c \in Tasks : (cleared /\ Calls(c)) => task'[c].pc = "tokenInflight"]_vars

\* The instant from which the cached token is no longer served: its
\* acquisition time + expires_in - 300 s.
ValidUntil == tokenMeta.at + tokenMeta.expires_in * 1000 - 300 * 1000

\* The call made by c in this step is served from the cache.
ServedFromCache(c) ==
    /\ settled'.caller = c
    /\ settled'.ok
    /\ settled'.token = cachedToken.accessToken
    /\ settled'.tokenRequests = 0

\* C7: a cached token is treated as valid exactly while
\* now < acquisition time + expires_in - 300 s: until then hasValidToken()
\* holds and getAccessToken() serves it from the cache, from then on
\* hasValidToken() is false and getAccessToken() acquires a new one.
C7_BufferedValidity ==
    [][cachedToken.present =>
        /\ hasValidToken <=> now < ValidUntil
        /\ \A c \in Tasks : Calls(c) =>
            /\ ServedFromCache(c) <=> now < ValidUntil
            /\ task'[c].pc = "tokenInflight" <=> now >= ValidUntil]_vars

\* A token with expires_in = 3600 is exactly 3300 s old, hasValidToken() is
\* false and a getAccessToken() call is acquiring a new one.
C7_Witness ==
    /\ cachedToken.present
    /\ tokenMeta.expires_in = 3600
    /\ now = tokenMeta.at + 3300000
    /\ ~hasValidToken
    /\ \E c \in Tasks :
        /\ task[c] = [NewTask("getAccessToken") EXCEPT !.pc = "tokenInflight"]
        /\ \A d \in Tasks \ {c} : task[d].pc = "idle"

\* C8: every token getAccessToken() returns satisfies
\* now < expiresAt - 300 s at the moment it is returned.
C8_NeverNearExpired ==
    \A c \in Tasks : ReturnedTokenTo(c) =>
        /\ cachedToken.accessToken = settled.token
        /\ now < cachedToken.expiresAt - 300000

\* The last step rejected a getAccessToken() call.
GetAccessTokenFailed ==
    settled.caller \in Tasks /\ settled.kind = "getAccessToken" /\ ~settled.ok

TransportKind(w) ==
    CASE w.code \in TimeoutCodes -> "TIMEOUT"
      [] w.code \notin TimeoutCodes /\ ~w.hasResponse -> "NETWORK_ERROR"
      [] w.hasResponse /\ w.status = 429 -> "RATE_LIMIT_EXCEEDED"
      [] w.hasResponse /\ w.status = 401 -> "AUTH_FAILED"
      [] w.hasResponse /\ w.status = 403 -> "AUTH_INVALID_CREDENTIALS"
      [] w.hasResponse /\ w.status >= 500 -> "SERVICE_UNAVAILABLE"
      [] w.hasResponse /\ w.status \in (400..499) \ {401, 403, 429} -> "API_ERROR"
      [] OTHER -> "UNKNOWN_ERROR"

ViolatesRequestSchema(r) ==
    LET BadAddress(a) ==
            \/ a.street1 = 0 \/ a.city = 0 \/ a.postalCode = 0
            \/ a.countryCode # 2
            \/ a.state \notin {-1, 2}
        BadPackage(q) ==
            \/ q.weight <= 0
            \/ (q.dimensions.present /\
                   (q.dimensions.length <= 0 \/ q.dimensions.width <= 0
                      \/ q.dimensions.height <= 0))
    IN \/ BadAddress(r.origin)
       \/ BadAddress(r.destination)
       \/ Len(r.packages) = 0
       \/ \E i \in 1..Len(r.packages) : BadPackage(r.packages[i])

\* C10: a getRates call whose request violates the request schema fails
\* with VALIDATION_ERROR having issued no token request and no rating
\* request, and it is over at that failure (nothing of it remains that could
\* issue one afterwards); a getRates call that is past its validation, where
\* network calls are issued, carries a request that satisfies the schema.
C10_ValidationBeforeNetwork ==
    /\ \A c \in Tasks :
        (task[c].kind = "getRates" /\ task[c].pc # "idle")
            => ~ViolatesRequestSchema(Request(task[c].request))
    /\ (settled.kind = "getRates" /\ ViolatesRequestSchema(Request(settled.request)))
        => /\ ~settled.ok
           /\ settled.error = CarrierIntegrationError("VALIDATION_ERROR", FALSE)
           /\ settled.tokenRequests = 0
           /\ settled.rateRequests = 0
           /\ settled.wire = NoFault
           /\ task[settled.caller].pc = "idle"

\* A getRates call with zero packages has just been rejected.
C10_Witness ==
    /\ settled.kind = "getRates"
    /\ Len(Request(settled.request).packages) = 0
    /\ settled.error.code = "VALIDATION_ERROR"
    /\ settled.tokenRequests = 0
    /\ settled.rateRequests = 0

(***************************************************************************)
(* getRates: the business status of a 2xx rating answer.                   *)
(***************************************************************************)
\* The last step settled a getRates call on a 2xx rating answer whose
\* ResponseStatus.Code is a string other than "1".
RejectingStatusAnswered ==
    /\ settled.kind = "getRates"
    /\ settled.rateRequests > 0
    /\ settled.wire.hasResponse /\ validateStatus(settled.wire.status)
    /\ settled.body.RateResponse
    /\ settled.body.Code.t = "string" /\ settled.body.Code.s # "1"

\* C11: a getRates call whose 2xx rating answer carries a ResponseStatus.Code
\* other than "1", with or without a rated shipment, fails with CARRIER_ERROR
\* whose message is the answer's own status description; it neither returns
\* nor fails with another kind.
C11_RejectingStatusIsCarrierError ==
    RejectingStatusAnswered
        => /\ ~settled.ok
           /\ settled.error = CarrierIntegrationError("CARRIER_ERROR", FALSE)
           /\ (settled.body.Description.t = "string" /\ settled.body.Description.s # ""
                  => settled.message = settled.body.Description.s)

(***************************************************************************)
(* shopRates: the result map.                                              *)
(***************************************************************************)
\* The name is "ups" in some letter case.
IsUps(name) ==
    /\ Len(name) = 3
    /\ name[1] \in {"u", "U"} /\ name[2] \in {"p", "P"} /\ name[3] \in {"s", "S"}

\* The names listed in the shopRates call.
ListedNames == {service.carrierNames[i] : i \in 1..Len(service.carrierNames)}

\* Every invocation of the shopRates call has settled.
ShopAllSettled ==
    /\ service.op = "shopRates"
    /\ \A i \in 1..Len(service.inv) : service.inv[i].pc \in {"resolved", "rejected"}

\* C12: once its invocations have settled, shopRates has returned a map
\* whose keys are exactly the listed names; the entry of a name is the
\* outcome of an invocation made for that name (of the one invocation, for a
\* name listed once): its quotes if getRates succeeded, its error if it
\* failed, and the plain lookup error of createCarrier for a name that is
\* not supported.
C12_OneEntryPerListedName ==
    ShopAllSettled
        => /\ service.pc = "resolved"
           /\ DOMAIN service.results = ListedNames
           /\ \A i \in 1..Len(service.inv) :
                LET name == service.carrierNames[i]
                    entry == service.results[name]
                    same == {j \in 1..Len(service.inv) : service.carrierNames[j] = name}
                IN /\ \E j \in same : entry = service.inv[j].outcome
                   /\ entry.ok = (\E j \in same : service.inv[j].pc = "resolved"
                                                    /\ entry = service.inv[j].outcome)
                   /\ (~entry.ok => entry.error # NoError)
                   /\ (~IsUps(name)
                         => /\ ~entry.ok
                            /\ entry.error.raw /\ entry.error.code = "Error"
                            /\ entry.error.message.unsupported = name)

\* shopRates returned a map of two entries, one an error and one a list of quotes.
C12_Witness ==
    /\ ShopAllSettled
    /\ Cardinality(DOMAIN service.results) = 2
    /\ \E x, y \in DOMAIN service.results :
        /\ ~service.results[x].ok
        /\ service.results[y].ok /\ service.results[y].quotes > 0

(***************************************************************************)
(* shopRates: isolation of the invocations.                                *)
(***************************************************************************)
\* C13: while a shopRates call is pending, a step of one invocation leaves
\* every other invocation as it is (neither cancelled nor changed), an
\* outcome once produced never changes, and the step that settles an
\* invocation writes that invocation's own outcome under its name and
\* leaves the entries of the other names alone.
C13_InvocationsIsolated ==
    [][(service.op = "shopRates" /\ service.pc = "pending")
        => /\ service'.op = "shopRates"
           /\ Len(service'.inv) = Len(service.inv)
           /\ \A i \in 1..Len(service.inv) :
                LET before == service.inv[i]
                    after == service'.inv[i]
                    WasSettled == before.pc \in {"resolved", "rejected"}
                    IsSettled == after.pc \in {"resolved", "rejected"}
                IN /\ (after # before
                         => \A j \in 1..Len(service.inv) :
                                j # i => service'.inv[j] = service.inv[j])
                   /\ (WasSettled => after = before)
                   /\ (IsSettled /\ ~WasSettled
                         => /\ before.carrierName \in DOMAIN service'.results
                            /\ service'.results[before.carrierName] = after.outcome
                            /\ \A n \in DOMAIN service.results :
                                 n # before.carrierName
                                    => /\ n \in DOMAIN service'.results
                                       /\ service'.results[n] = service.results[n])]_vars

\* One invocation of a shopRates call has failed on the network while the
\* other is still awaiting an answer.
C13_Witness ==
    /\ service.op = "shopRates" /\ service.pc = "pending"
    /\ Len(service.inv) = 2
    /\ \E i, j \in 1..2 :
        /\ service.inv[i].pc = "rejected"
        /\ service.inv[i].outcome.error.code \in {"AUTH_FAILED", "SERVICE_UNAVAILABLE"}
        /\ service.inv[j].pc \in {"tokenInflight", "rateInflight"}

(***************************************************************************)
(* shopRates: when and how it returns.                                     *)
(***************************************************************************)
\* Some invocation of the call is still awaiting an answer or a timer.
SomePending ==
    \E i \in 1..Len(service.inv) : service.inv[i].pc \notin {"resolved", "rejected"}

\* Some invocation of the call has failed.
SomeFailed == \E i \in 1..Len(service.inv) : service.inv[i].pc = "rejected"

\* C14: shopRates has returned only if every invocation it started has
\* settled; in particular while one invocation has failed and another is
\* pending, the call is pending.
C14_ReturnsAfterAllSettled ==
    service.op = "shopRates"
        => /\ (service.pc # "pending" => ~SomePending)
           /\ (SomeFailed /\ SomePending => service.pc = "pending")

\* shopRates has returned after two invocations of which one failed on the
\* network.
C14_Witness ==
    /\ service.op = "shopRates" /\ service.pc = "resolved"
    /\ Len(service.inv) = 2
    /\ ~SomePending
    /\ \E i \in 1..2 : /\ service.inv[i].pc = "rejected"
                        /\ service.inv[i].tokenRequests + service.inv[i].rateRequests > 0

\* The network requests the invocations of the call have posted.
RequestsPosted(i) == service.inv[i].tokenRequests + service.inv[i].rateRequests

\* C15: the promise of shopRates never rejects, whatever the names and the
\* request: it is resolved once the invocations have settled, and for an
\* empty list it is resolved at once with an empty map and no invocation,
\* hence no network request.
C15_ShopRatesNeverRejects ==
    service.op = "shopRates"
        => /\ service.pc \in {"pending", "resolved"}
           /\ (~SomePending => service.pc = "resolved")
           /\ (Len(service.carrierNames) = 0
                 => /\ service.pc = "resolved"
                    /\ DOMAIN service.results = {}
                    /\ Len(service.inv) = 0)

\* shopRates resolved for an invalid request and a list with an unsupported
\* name: both failures are entries of the map.
C15_Witness ==
    /\ service.op = "shopRates" /\ service.pc = "resolved"
    /\ service.request = "noPackages"
    /\ \E x, y \in DOMAIN service.results :
        /\ service.results[x].error.code = "Error"
        /\ service.results[y].error.code = "VALIDATION_ERROR"
    /\ \A i \in 1..Len(service.inv) : RequestsPosted(i) = 0

\* shopRates resolved with an empty map for an empty list.
C15_WitnessEmpty ==
    /\ service.op = "shopRates" /\ service.pc = "resolved"
    /\ Len(service.carrierNames) = 0

(***************************************************************************)
(* healthCheck.                                                            *)
(***************************************************************************)
\* The healthCheck call that has just settled obtained a token: from the
\* cache, without a token request, or from a 2xx answer with a well-formed
\* body.
HealthTokenObtained ==
    \/ settled.tokenRequests = 0
    \/ /\ settled.wire.hasResponse /\ settled.wire.status \in 200..299
       /\ ~settled.malformed

\* C16: a healthCheck call always resolves (it never throws), with true if
\* and only if it obtained a token; an auth rejection, a transport error and
\* a malformed token response all make it resolve with false.
C16_HealthIffToken ==
    settled.kind = "healthCheck"
        => /\ settled.ok
           /\ settled.error = NoError
           /\ (settled.healthy <=> HealthTokenObtained)

\* healthCheck has just returned false because the token endpoint answered 401.
C16_Witness ==
    /\ settled.kind = "healthCheck"
    /\ settled.ok /\ ~settled.healthy
    /\ settled.wire.hasResponse /\ settled.wire.status = 401

\* healthCheck has just returned true on a freshly acquired token.
C16_WitnessHealthy ==
    /\ settled.kind = "healthCheck"
    /\ settled.healthy /\ settled.tokenRequests > 0

(***************************************************************************)
(* The registry.                                                           *)
(***************************************************************************)
\* The two names differ at most in the case of their letters.
SameIgnoringCase(a, b) ==
    /\ Len(a) = Len(b)
    /\ \A i \in 1..Len(a) :
        \/ a[i] = b[i]
        \/ {a[i], b[i]} \in {{"u", "U"}, {"p", "P"}, {"s", "S"}}

\* The names getSupportedCarriers() lists.
Supported == {getSupportedCarriers[i] : i \in 1..Len(getSupportedCarriers)}

\* C17: the listing contains "ups"; createCarrier(name) succeeds exactly
\* when name is, up to letter case, a listed name (all listed names being
\* lower-case), and names that differ only in letter case resolve to the
\* same adapter class or both fail.
C17_LookupCaseInsensitive ==
    lookup.called
        => /\ <<"u", "p", "s">> \in Supported
           /\ (lookup.result.ok <=> \E n \in Supported : SameIgnoringCase(lookup.carrierName, n))
           /\ (lookup.result.ok <=> IsUps(lookup.carrierName))
           /\ \A other \in CarrierNames :
                SameIgnoringCase(other, lookup.carrierName)
                    => /\ createCarrier(other).ok = lookup.result.ok
                       /\ createCarrier(other).carrier = lookup.result.carrier

\* createCarrier was called with "UpS" and constructed the UPS adapter.
C17_Witness ==
    /\ lookup.called
    /\ lookup.carrierName = <<"U", "p", "S">>
    /\ lookup.result.ok /\ lookup.result.carrier = "UpsCarrier"

\* C18: service.getRates for a name that is not supported rejects with the
\* plain Error of createCarrier, which is no CarrierIntegrationError and
\* whose message names the carrier asked for and every supported carrier;
\* no adapter was constructed and no network request was posted.
C18_UnknownNameIsPlainError ==
    (service.op = "getRates" /\ ~IsUps(service.carrierNames[1]))
        => /\ service.pc = "rejected"
           /\ service.inv[1].pc = "rejected"
           /\ service.inv[1].outcome.error.raw
           /\ service.inv[1].outcome.error.code = "Error"
           /\ service.inv[1].outcome.error.message.unsupported = service.carrierNames[1]
           /\ {service.inv[1].outcome.error.message.supported[k] :
                  k \in 1..Len(service.inv[1].outcome.error.message.supported)}
                = {<<"u", "p", "s">>}
           /\ ~service.inv[1].adapter
           /\ service.inv[1].tokenRequests = 0
           /\ service.inv[1].rateRequests = 0

\* service.getRates("x", request) has rejected with the lookup error.
C18_Witness ==
    /\ service.op = "getRates"
    /\ service.carrierNames = << <<"x">> >>
    /\ service.pc = "rejected"
    /\ service.inv[1].outcome.error.code = "Error"

(***************************************************************************)
(* The token cache seen through the service.                               *)
(***************************************************************************)
\* The record is a getRates (with a valid request) or checkCarrierHealth
\* call on the service for the carrier "ups".
SingleUpsCall(call) ==
    /\ call.op \in {"getRates", "checkCarrierHealth"}
    /\ IsUps(call.carrierNames[1])
    /\ (call.op = "getRates" => call.request = "onePackage")

\* C19: when a getRates or checkCarrierHealth call for "ups" has finished
\* having obtained a token that is still valid under the buffer rule, the
\* next such call on the same service posts no token request.
C19_TokenCachedAcrossCalls ==
    [][(/\ SingleUpsCall(service)
        /\ service.pc # "pending"
        /\ service.inv[1].cachedToken.present
        /\ now < service.inv[1].cachedToken.expiresAt - 300 * 1000
        /\ SingleUpsCall(service'))
        => service'.inv[1].tokenRequests = 0]_vars

(***************************************************************************)
(* The mapper: both shapes of RatedShipment.                               *)
(***************************************************************************)
\* C20: a RatedShipment that is an array of n shipments maps to n quotes,
\* the i-th quote made of the i-th shipment; a RatedShipment that is one
\* shipment object maps to exactly one quote, made of it.
C20_QuotesPreserveOrder ==
    mapped.called
        => LET given == mapped.RatedShipment.items IN
           /\ (~mapped.RatedShipment.isArray => Len(mapped.quotes) = 1)
           /\ Len(mapped.quotes) = Len(given)
           /\ \A i \in 1..Len(given) :
                /\ mapped.quotes[i].carrier = "UPS"
                /\ mapped.quotes[i].serviceCode = given[i].Service.Code

\* An array of two shipments of different services has been mapped.
C20_Witness ==
    /\ mapped.called
    /\ mapped.RatedShipment.isArray
    /\ Len(mapped.RatedShipment.items) = 2
    /\ mapped.RatedShipment.items[1] # mapped.RatedShipment.items[2]
    /\ Len(mapped.quotes) = 2

\* One shipment object has been mapped to one quote.
C20_WitnessSingle ==
    /\ mapped.called
    /\ ~mapped.RatedShipment.isArray
    /\ Len(mapped.quotes) = 1

(***************************************************************************)
(* shopRates: a deadline of the caller.                                    *)
(***************************************************************************)
\* C21: once the deadline of a shopRates call has elapsed, the call has
\* returned, no invocation of it is in flight any more, and every listed
\* name has an entry, that of an invocation that had not settled being a
\* TIMEOUT error.
C21_DeadlineAbandonsCalls ==
    (service.op = "shopRates" /\ service.deadline)
        => /\ service.pc = "resolved"
           /\ \A i \in 1..Len(service.inv) :
                /\ service.inv[i].pc \in {"resolved", "rejected"}
                /\ service.carrierNames[i] \in DOMAIN service.results

(***************************************************************************)
(* C22 - C24: the backoff delays of one call.                              *)
(***************************************************************************)
\* C22: the delays slept by one call are non-decreasing in the attempt
\* index: each delay is at least the delay slept before it.
C22_DelaysNonDecreasing ==
    \A i \in 1..(Len(http.delays) - 1) : http.delays[i + 1] >= http.delays[i]

\* The exponential part of the delay after failed attempt n, as the claim
\* states it: min(1000 * 2^n, 10000).
CappedExponential(n) ==
    IF 1000 * (2 ^ n) <= 10000 THEN 1000 * (2 ^ n) ELSE 10000

\* C23: the delay slept after failed attempt n (0-indexed) is
\* min(1000 * 2^n, 10000) plus a jitter in [0, 1000): it is at least
\* min(1000 * 2^n, 10000) and never exceeds 11000.
C23_DelayFormula ==
    \A i \in 1..Len(http.delays) :
        /\ http.delays[i] >= CappedExponential(i - 1)
        /\ http.delays[i] < CappedExponential(i - 1) + 1000
        /\ http.delays[i] <= 11000

\* A delay was slept after failed attempt 4, where 1000 * 2^4 exceeds the
\* cap, with the largest jitter of the model.
C23_Witness ==
    /\ Len(http.delays) >= 5
    /\ http.delays[5] = 10999

\* The wire outcome w is classified as a retryable error.
RetryableFailure(w) ==
    /\ ~(w.hasResponse /\ w.status \in 200..299)
    /\ ClientRequest(w).error.retryable

\* C24: a call returns at its first successful attempt; a call whose
\* attempts all failed with retryable errors fails with the error of attempt
\* number maxRetries, at once; a delay is slept only between a retryable
\* failure and the next attempt, so a finished or in-flight call has slept
\* attempts - 1 delays.
C24_RetryOnlyFailures ==
    /\ http.pc \in {"inflight", "returned", "thrown"}
            => Len(http.delays) = http.attempts - 1
    /\ http.pc = "sleeping"
            => /\ Len(http.delays) = http.attempts
               /\ http.attempts <= maxRetries
               /\ RetryableFailure(http.wire)
    /\ http.pc = "returned"
            => /\ http.attempt \in 0..maxRetries
               /\ http.attempts = http.attempt + 1
               /\ http.status = http.wire.status
    /\ (http.pc = "thrown" /\ RetryableFailure(http.wire))
            => /\ http.attempt = maxRetries
               /\ http.attempts = maxRetries + 1
               /\ http.thrown = ClientRequest(http.wire).error
               /\ Len(http.delays) = maxRetries

\* A call with two retries failed on its third attempt with a retryable
\* error after exactly two delays.
C24_Witness ==
    /\ maxRetries = 2
    /\ http.pc = "thrown"
    /\ RetryableFailure(http.wire)
    /\ Len(http.delays) = 2

\* A call returned the response of its second attempt after one delay.
C24_WitnessReturned ==
    /\ http.pc = "returned"
    /\ http.attempts = 2
    /\ Len(http.delays) = 1

(***************************************************************************)
(* C25, C26: the states of the token cache and concurrent acquisitions.    *)
(***************************************************************************)
\* The state of the cache as the claim names it.
CacheState ==
    IF ~cachedToken.present THEN "Empty"
    ELSE IF now < cachedToken.expiresAt - 300000 THEN "Valid"
    ELSE "Stale"

\* The token request of caller c is answered in this step and its
\* acquisition succeeds.
Acquires(c) ==
    task[c].pc = "tokenInflight" /\ settled'.caller = c /\ settled'.ok

\* C25: the cache is Empty initially; a successful acquisition makes it
\* Valid; only the passage of time makes a Valid cache Stale; in Stale and
\* in Empty a getAccessToken() call acquires; a step that is neither an
\* acquisition nor the passage of time changes the cache only to Empty;
\* nothing but a successful acquisition makes the cache Valid.
C25_CacheStateMachine ==
    /\ CacheState = "Empty"
    /\ [][/\ \A c \in Tasks : Acquires(c) => CacheState' = "Valid"
          /\ (CacheState' = "Valid" /\ CacheState # "Valid")
                => \E c \in Tasks : Acquires(c)
          /\ (CacheState = "Valid" /\ CacheState' = "Stale")
                => now' > now \/ \E c \in Tasks : Acquires(c)
          /\ \A c \in Tasks : (CacheState \in {"Empty", "Stale"} /\ Calls(c))
                => task'[c].pc = "tokenInflight"
          /\ (cachedToken' # cachedToken /\ ~\E c \in Tasks : Acquires(c))
                => CacheState' = "Empty"]_vars

\* C26: a getAccessToken() call made while the cache is Empty or Stale posts
\* its own token request whatever the other callers have in flight; a call
\* whose token request succeeds has issued at least one request, receives
\* the access token of its own response, and leaves in the cache that access
\* token with the expiry computed from the same response; the cache is
\* written by successful acquisitions and emptied by clearToken() only, so
\* it holds the token of the acquisition that completed last.
C26_AcquisitionNotDeduplicated ==
    [][/\ \A c \in Tasks :
            /\ (Calls(c) /\ CacheState \in {"Empty", "Stale"})
                => /\ task'[c].pc = "tokenInflight"
                   /\ task'[c].attempt = 0
                   /\ \A d \in Tasks \ {c} : task'[d] = task[d]
            /\ Acquires(c)
                => /\ settled'.tokenRequests = task[c].attempt + 1
                   /\ cachedToken'.present
                   /\ cachedToken'.accessToken = settled'.token
                   /\ tokenMeta'.at = now
                   /\ cachedToken'.expiresAt = now + tokenMeta'.expires_in * 1000
                   /\ \A d \in Tasks \ {c} : task'[d] = task[d]
       /\ cachedToken' # cachedToken
            => \/ \E c \in Tasks : Acquires(c)
               \/ cachedToken' = NullToken]_vars

\* Two callers have their own token request in flight at once.
C26_WitnessBothInflight ==
    \A c \in Tasks : task[c].pc = "tokenInflight"

\* Caller A's acquisition has just completed with tok1 while caller B's own
\* token request, posted on an Empty or Stale cache, is still in flight.
C26_Witness ==
    /\ settled.caller = "A" /\ settled.ok /\ settled.tokenRequests >= 1
    /\ settled.token = "tok1"
    /\ cachedToken.present /\ cachedToken.accessToken = "tok1"
    /\ task["B"].pc = "tokenInflight"

\* The acquisition that completed last, B's with tok2, overwrote a cached
\* tok1 that was still Valid.
C26_WitnessLastWins ==
    /\ settled.caller = "B" /\ settled.ok /\ settled.tokenRequests >= 1
    /\ settled.token = "tok2"
    /\ cachedToken.accessToken = "tok2"
    /\ tokenMeta.expires_in = 60
    /\ task["A"].pc = "idle"

(***************************************************************************)
(* C27 - C29: getRates between the token, the rating request and the       *)
(* answer.                                                                 *)
(***************************************************************************)
\* The getRates call of caller c is waiting for its token and fails in this
\* step.
TokenPhaseFails(c) ==
    /\ task[c].kind = "getRates"
    /\ task[c].pc = "tokenInflight"
    /\ settled'.caller = c
    /\ ~settled'.ok

\* The getRates call of caller c posts its first rating request in this step.
PostsRatingRequest(c) ==
    /\ task'[c].kind = "getRates"
    /\ task'[c].pc = "rateInflight"
    /\ task[c].pc \notin {"rateInflight", "rateSleeping"}

\* C27: getRates posts the rating request only in a step in which its token
\* is obtained (served from the cache or acquired), and carries that token;
\* when obtaining the token fails, getRates fails at once with the very
\* error of the token call (API_ERROR for a malformed token answer,
\* otherwise the Transport's kind of the last answer with its retryable
\* flag) and has sent no rating request.
C27_TokenBeforeRating ==
    [][\A c \in Callers :
        /\ PostsRatingRequest(c)
            => /\ task[c].pc \in {"idle", "tokenInflight"}
               /\ cachedToken'.present
               /\ task'[c].token = cachedToken'.accessToken
               /\ task[c].pc = "idle"
                    => (cachedToken' = cachedToken /\ now < cachedToken.expiresAt - 300000)
        /\ TokenPhaseFails(c)
            => /\ settled'.kind = "getRates"
               /\ ~settled'.error.raw
               /\ settled'.error.code =
                    (IF settled'.malformed THEN "API_ERROR" ELSE TransportKind(settled'.wire))
               /\ settled'.error.retryable
                    <=> (~settled'.malformed /\ settled'.error.code \in RetryableKinds)
               /\ settled'.rateRequests = 0
               /\ settled'.tokenRequests = task[c].attempt + 1
               /\ task'[c].pc = "idle"]_vars

\* getRates has just failed with RATE_LIMIT_EXCEEDED, the error of its token
\* call, after the token retries were used up and without a rating request.
C27_Witness ==
    /\ settled.kind = "getRates"
    /\ ~settled.ok
    /\ settled.error = CarrierIntegrationError("RATE_LIMIT_EXCEEDED", TRUE)
    /\ settled.wire.status = 429
    /\ settled.tokenRequests = maxRetries + 1
    /\ settled.rateRequests = 0

\* getRates has just failed on a rating request that was not answered 2xx.
RatingTransportFailure ==
    /\ settled.kind = "getRates"
    /\ settled.rateRequests > 0
    /\ ~(settled.wire.hasResponse /\ settled.wire.status \in 200..299)

\* C28: a getRates call whose rating request failed in the Transport fails
\* with the Transport's kind of the final answer and its retryable flag:
\* API_ERROR for HTTP 400, SERVICE_UNAVAILABLE for HTTP 500 after exactly
\* maxRetries + 1 rating attempts; VALIDATION_ERROR appears only before any
\* request was sent and CARRIER_ERROR only on a 2xx rating answer, and
\* getRates never fails with UNKNOWN_ERROR of its own making.
C28_TransportErrorReachesCaller ==
    /\ RatingTransportFailure
        => /\ ~settled.ok
           /\ ~settled.error.raw
           /\ settled.error.code = TransportKind(settled.wire)
           /\ settled.error.retryable <=> settled.error.code \in RetryableKinds
           /\ settled.error.retryable => settled.rateRequests = maxRetries + 1
           /\ ~settled.error.retryable => settled.rateRequests <= maxRetries + 1
           /\ (settled.wire.hasResponse /\ settled.wire.status = 400)
                => settled.error = CarrierIntegrationError("API_ERROR", FALSE)
           /\ (settled.wire.hasResponse /\ settled.wire.status = 500)
                => /\ settled.error = CarrierIntegrationError("SERVICE_UNAVAILABLE", TRUE)
                   /\ settled.rateRequests = maxRetries + 1
    /\ (settled.kind = "getRates" /\ ~settled.ok)
        => /\ settled.error.code = "VALIDATION_ERROR"
                => settled.tokenRequests = 0 /\ settled.rateRequests = 0
           /\ settled.error.code = "CARRIER_ERROR"
                => /\ settled.rateRequests > 0
                   /\ settled.wire.hasResponse /\ settled.wire.status \in 200..299
           /\ settled.error.code = "UNKNOWN_ERROR"
                => TransportKind(settled.wire) = "UNKNOWN_ERROR"

\* getRates has just failed with SERVICE_UNAVAILABLE on a rating endpoint
\* that answered 500 through the retry.
C28_Witness ==
    /\ RatingTransportFailure
    /\ maxRetries = 1
    /\ settled.wire.status = 500
    /\ settled.error.code = "SERVICE_UNAVAILABLE"
    /\ settled.rateRequests = 2

\* getRates has just failed with API_ERROR on a rating answer 400, after one
\* attempt although a retry is configured.
C28_WitnessBadRequest ==
    /\ RatingTransportFailure
    /\ maxRetries = 1
    /\ settled.wire.status = 400
    /\ settled.error.code = "API_ERROR"
    /\ settled.rateRequests = 1

\* The body of a rating answer does not have the shape of a rate response:
\* no RateResponse member, a status code or description that is not a
\* string, or no rated shipment.
ShapeMismatch(body) ==
    \/ ~body.RateResponse
    \/ body.Code.t # "string"
    \/ body.Description.t # "string"
    \/ body.RatedShipment = "undefined"

\* The last step settled a getRates call on a 2xx rating answer.
RatingAnswered ==
    /\ settled.kind = "getRates"
    /\ settled.rateRequests > 0
    /\ settled.wire.hasResponse /\ settled.wire.status \in 200..299

\* C29: a getRates call whose 2xx rating answer does not have the shape of
\* a rate response fails with API_ERROR, non-retryable, and yields no
\* quotes; a getRates call that returned quotes did so from an answer of the
\* right shape.
C29_ShapeMismatchIsApiError ==
    /\ (RatingAnswered /\ ShapeMismatch(settled.body))
        => /\ ~settled.ok
           /\ settled.error = CarrierIntegrationError("API_ERROR", FALSE)
           /\ settled.quotes = 0
    /\ (settled.kind = "getRates" /\ settled.ok)
        => /\ RatingAnswered
           /\ ~ShapeMismatch(settled.body)

\* getRates has just failed with API_ERROR on a 2xx answer whose status code
\* is a number.
C29_Witness ==
    /\ RatingAnswered
    /\ settled.body.RateResponse
    /\ settled.body.Code.t = "number"
    /\ settled.error.code = "API_ERROR"

\* getRates has just failed with API_ERROR on a 2xx answer that has no
\* RateResponse member.
C29_WitnessNoRateResponse ==
    /\ RatingAnswered
    /\ ~settled.body.RateResponse
    /\ settled.error.code = "API_ERROR"

C30_WitnessResponse ==
    /\ caught.called
    /\ caught.error = RawError("AxiosError", TRUE)
    /\ caught.errorData = "errorsMessage"
    /\ caught.thrown.code = "CARRIER_ERROR"
    /\ caught.message = "firstError.message"

(***************************************************************************)
(* C31: the token state of different adapters.                             *)
(***************************************************************************)
\* Invocation iv is past the point where its adapter obtained a token.
HoldsToken(iv) ==
    \/ iv.pc \in {"rateInflight", "rateSleeping"}
    \/ iv.rateRequests > 0
    \/ (iv.pc = "resolved" /\ (iv.kind = "getRates" \/ iv.outcome.healthy))

\* C31: the token in an adapter's cache was acquired by a token request of
\* that adapter, and an adapter that went on with a token had acquired it
\* itself, whatever tokens the adapters of other invocations or of earlier
\* calls hold; while a call is pending, the cache of an adapter changes only
\* in the step that answers its own token request, and that step leaves the
\* cache of every other adapter as it is.
C31_AdaptersShareNoTokenState ==
    /\ [](\A i \in 1..Len(service.inv) :
            LET iv == service.inv[i] IN
            /\ iv.cachedToken.present => (iv.adapter /\ iv.tokenRequests >= 1)
            /\ HoldsToken(iv) => (iv.cachedToken.present /\ iv.tokenRequests >= 1))
    /\ [][service.pc = "pending"
            => \A i \in 1..Len(service.inv) :
                 service'.inv[i].cachedToken # service.inv[i].cachedToken
                    => /\ service.inv[i].pc = "tokenInflight"
                       /\ service.inv[i].cachedToken = NullToken
                       /\ \A j \in 1..Len(service.inv) :
                            j # i => service'.inv[j].cachedToken = service.inv[j].cachedToken]_vars

\* In one shopRates call the adapter of one invocation holds a token and
\* has posted its rating request while the adapter of the other, with an
\* empty cache, still awaits the answer to its own token request.
C31_Witness ==
    /\ service.op = "shopRates" /\ service.pc = "pending"
    /\ Len(service.inv) = 2
    /\ \E i, j \in 1..2 :
        /\ service.inv[i].cachedToken.present
        /\ service.inv[i].pc = "rateInflight"
        /\ service.inv[j].adapter
        /\ service.inv[j].cachedToken = NullToken
        /\ service.inv[j].pc = "tokenInflight"

(***************************************************************************)
(* C32: the transit days of a quote.                                       *)
(***************************************************************************)
\* The member of the shipment is present and carries a non-empty
\* BusinessDaysInTransit string.
HasDays(member) ==
    /\ member.present
    /\ member.BusinessDaysInTransit.t = "string"
    /\ member.BusinessDaysInTransit.s # ""

\* C32: the transitDays of a quote is the number parsed from
\* TimeInTransit.BusinessDaysInTransit when that is present and non-empty,
\* otherwise the one parsed from GuaranteedDelivery.BusinessDaysInTransit
\* when that is present and non-empty, otherwise undefined; and
\* guaranteedDelivery is true exactly when the shipment has a
\* GuaranteedDelivery object.
C32_TransitDaysPriority ==
    mapped.called =>
        LET given == IF mapped.RatedShipment.isArray THEN mapped.RatedShipment.items
                     ELSE <<mapped.RatedShipment.items[1]>>
        IN /\ Len(mapped.quotes) = Len(given)
           /\ \A i \in 1..Len(given) :
                LET shipment == given[i]
                    quote == mapped.quotes[i]
                IN /\ HasDays(shipment.TimeInTransit)
                        => quote.transitDays
                            = parseInt(shipment.TimeInTransit.BusinessDaysInTransit.s)
                   /\ (~HasDays(shipment.TimeInTransit) /\ HasDays(shipment.GuaranteedDelivery))
                        => quote.transitDays
                            = parseInt(shipment.GuaranteedDelivery.BusinessDaysInTransit.s)
                   /\ (~HasDays(shipment.TimeInTransit) /\ ~HasDays(shipment.GuaranteedDelivery))
                        => quote.transitDays = JUndef
                   /\ quote.guaranteedDelivery <=> shipment.GuaranteedDelivery.present

\* A shipment that carries both members, with different day counts, was
\* mapped: the quote has the days of TimeInTransit.
C32_Witness ==
    /\ mapped.called
    /\ ~mapped.RatedShipment.isArray
    /\ mapped.RatedShipment.items[1].TimeInTransit = Member(JStr("5"))
    /\ mapped.RatedShipment.items[1].GuaranteedDelivery = Member(JStr("2"))
    /\ mapped.quotes[1].transitDays = JNum(5)
    /\ mapped.quotes[1].guaranteedDelivery

\* A shipment whose TimeInTransit has an empty day string was mapped: the
\* quote has the days of GuaranteedDelivery.
C32_WitnessFallback ==
    /\ mapped.called
    /\ mapped.RatedShipment.items[1].TimeInTransit = Member(JStr(""))
    /\ mapped.RatedShipment.items[1].GuaranteedDelivery = Member(JStr("2"))
    /\ mapped.quotes[1].transitDays = JNum(2)

\* A shipment with a GuaranteedDelivery object without day count and no
\* TimeInTransit was mapped: the quote has no transit days and is guaranteed.
C32_WitnessAbsent ==
    /\ mapped.called
    /\ mapped.RatedShipment.items[1].TimeInTransit = NoMember
    /\ mapped.RatedShipment.items[1].GuaranteedDelivery = Member(JUndef)
    /\ mapped.quotes[1].transitDays = JUndef
    /\ mapped.quotes[1].guaranteedDelivery

(***************************************************************************)
(* C33: a failed acquisition and the cache.                                *)
(***************************************************************************)
\* The token request of caller c is answered in this step and the call
\* fails.
AcquisitionFails(c) ==
    task[c].pc = "tokenInflight" /\ settled'.caller = c /\ ~settled'.ok

\* C33: the step in which a token acquisition fails, on a transport error
\* or on a malformed token answer, and every failed attempt before it, leave
\* the cached token as it was; a stored token is replaced only by a
\* successful acquisition and removed only by clearToken().
C33_FailedAcquisitionKeepsCache ==
    [][/\ \A c \in Tasks :
            /\ AcquisitionFails(c) => cachedToken' = cachedToken
            /\ (task[c].pc = "tokenInflight" /\ task'[c].pc = "tokenSleeping")
                => cachedToken' = cachedToken
       /\ (cachedToken.present /\ cachedToken' # cachedToken)
            => \/ \E c \in Tasks : task[c].pc = "tokenInflight" /\ settled'.caller = c
                                    /\ settled'.ok /\ cachedToken'.present
               \/ (cachedToken' = NullToken /\ cleared' /\ settled' = NoneSettled
                     /\ task' = task)]_vars

\* An acquisition has just failed on a transport error while a Stale token
\* is still stored.
C33_Witness ==
    /\ settled.caller \in Tasks /\ ~settled.ok /\ ~settled.malformed
    /\ settled.tokenRequests >= 1
    /\ cachedToken.present
    /\ now >= cachedToken.expiresAt - 300000

\* An acquisition has just failed on a malformed token answer while a
\* token is stored.
C33_WitnessMalformed ==
    /\ settled.caller \in Tasks /\ ~settled.ok /\ settled.malformed
    /\ cachedToken.present

(***************************************************************************)
(* C34: a rating request answered 401.                                     *)
(***************************************************************************)
\* The rating request of caller c's getRates is answered 401 in this step.
RatingUnauthorized(c) ==
    /\ task[c].pc = "rateInflight"
    /\ settled'.caller = c
    /\ settled'.wire.hasResponse /\ settled'.wire.status = 401

\* The last step failed caller c's getRates on a rating answer 401.
FailedUnauthorized(c) ==
    /\ settled.caller = c /\ settled.kind = "getRates" /\ ~settled.ok
    /\ settled.rateRequests > 0
    /\ settled.wire.hasResponse /\ settled.wire.status = 401

\* C34: a rating answer 401 fails getRates with AUTH_FAILED at the attempt
\* it answers, which is not retried (exactly one rating attempt when the
\* endpoint answers the first one with 401), with no token request beyond
\* those that obtained the token, and leaves the cached token, the one it
\* sent, in place; a getRates
\* call made right afterwards on the same adapter while that token is valid
\* under the buffer rule posts its rating request with the same token and
\* no token request.
C34_UnauthorizedNotRecovered ==
    /\ [](\A c \in Callers : task[c].pc = "rateInflight"
            => \A w \in WireOutcomes :
                 (w.hasResponse /\ w.status = 401)
                    => ~ShouldRetry(ClientRequest(w).error, task[c].attempt, maxRetries))
    /\ [][\A c \in Callers :
           /\ RatingUnauthorized(c)
               => /\ ~settled'.ok
                  /\ settled'.error = CarrierIntegrationError("AUTH_FAILED", FALSE)
                  /\ settled'.rateRequests = task[c].attempt + 1
                  /\ task[c].attempt = 0 => settled'.rateRequests = 1
                  /\ settled'.tokenRequests = task[c].tokenRequests
                  /\ cachedToken.present
                  /\ cachedToken.accessToken = task[c].token
                  /\ cachedToken' = cachedToken
                  /\ task'[c].pc = "idle"
           /\ (/\ FailedUnauthorized(c)
               /\ task'[c].kind = "getRates" /\ task'[c].pc # "idle"
               /\ now < cachedToken.expiresAt - 300000)
               => /\ task'[c].pc = "rateInflight"
                  /\ task'[c].token = cachedToken.accessToken
                  /\ task'[c].tokenRequests = 0
                  /\ cachedToken' = cachedToken]_vars

\* getRates has just failed with AUTH_FAILED on a rating answer 401 after
\* one rating attempt although a retry is configured, and the token it sent
\* is still cached and valid.
C34_Witness ==
    /\ maxRetries = 1
    /\ FailedUnauthorized("A")
    /\ settled.error.code = "AUTH_FAILED"
    /\ settled.rateRequests = 1
    /\ cachedToken.present
    /\ now < cachedToken.expiresAt - 300000

(***************************************************************************)
(* C35: the requests of one getRates call.                                 *)
(***************************************************************************)
\* Caller c's getRates is in its rating retry loop.
InRatingLoop(rec) == rec.kind = "getRates" /\ rec.pc \in {"rateInflight", "rateSleeping"}

\* C35: a getRates call posts at most maxRetries + 1 token requests and
\* then at most maxRetries + 1 rating requests, at most 2 * (maxRetries + 1)
\* requests in all; the token is obtained before the first rating request,
\* and through the rating retries the call keeps that token and posts no
\* token request.
C35_RequestsBounded ==
    /\ [](/\ \A c \in Callers :
               /\ (task[c].kind = "getRates" /\ task[c].pc \in {"tokenInflight", "tokenSleeping"})
                    => (task[c].attempt + 1 <= maxRetries + 1 /\ task[c].token = "-")
               /\ InRatingLoop(task[c])
                    => /\ task[c].tokenRequests <= maxRetries + 1
                       /\ task[c].attempt + 1 <= maxRetries + 1
                       /\ task[c].token # "-"
          /\ settled.kind = "getRates"
               => /\ settled.tokenRequests <= maxRetries + 1
                  /\ settled.rateRequests <= maxRetries + 1
                  /\ settled.tokenRequests + settled.rateRequests <= 2 * (maxRetries + 1))
    /\ [][\A c \in Callers :
            /\ (InRatingLoop(task[c]) /\ InRatingLoop(task'[c]))
                => /\ task'[c].token = task[c].token
                   /\ task'[c].tokenRequests = task[c].tokenRequests
                   /\ cachedToken' = cachedToken
            /\ (InRatingLoop(task[c]) /\ settled'.caller = c)
                => /\ settled'.tokenRequests = task[c].tokenRequests
                   /\ settled'.rateRequests = task[c].attempt + 1
                   /\ cachedToken' = cachedToken]_vars

\* A getRates call with one retry has just failed having posted two token
\* requests and two rating requests.
C35_Witness ==
    /\ maxRetries = 1
    /\ settled.kind = "getRates"
    /\ settled.tokenRequests = 2
    /\ settled.rateRequests = 2

(***************************************************************************)
(* C36: the keys of the shopRates map.                                     *)
(***************************************************************************)
\* Invocation i of the pending call settles in this step.
SettlesNow(i) ==
    /\ service.inv[i].pc \notin {"resolved", "rejected"}
    /\ service'.inv[i].pc \in {"resolved", "rejected"}

\* C36: shopRates runs one invocation per listed name, each for the name as
\* it was passed and, for a name that is "ups" in any letter case, with an
\* adapter of its own; once they have settled the keys of the map are the
\* distinct strings passed, so "ups" and "UPS" have separate entries and a
\* string listed twice has one; the step that settles an invocation puts its
\* outcome under its name, replacing what an invocation of the same name
\* that settled earlier had put there.
C36_KeyedByNamesAsGiven ==
    /\ [](service.op = "shopRates"
            => /\ Len(service.inv) = Len(service.carrierNames)
               /\ \A i \in 1..Len(service.inv) :
                    /\ service.inv[i].carrierName = service.carrierNames[i]
                    /\ IsUps(service.carrierNames[i])
                        => /\ service.inv[i].adapter
                           /\ service.request = "onePackage"
                                => service.inv[i].tokenRequests >= 1
               /\ DOMAIN service.results \subseteq ListedNames
               /\ ShopAllSettled
                    => /\ DOMAIN service.results = ListedNames
                       /\ Cardinality(DOMAIN service.results)
                            = Cardinality({service.carrierNames[i] :
                                             i \in 1..Len(service.carrierNames)}))
    /\ [][(service.op = "shopRates" /\ service.pc = "pending")
            => \A i \in 1..Len(service.inv) :
                 SettlesNow(i)
                    => /\ service.carrierNames[i] \in DOMAIN service'.results
                       /\ service'.results[service.carrierNames[i]] = service'.inv[i].outcome]_vars

\* shopRates(["ups", "UPS"]) has returned a map of two entries, each
\* invocation having posted requests of its own.
C36_Witness ==
    /\ ShopAllSettled
    /\ service.carrierNames = << <<"u", "p", "s">>, <<"U", "P", "S">> >>
    /\ Cardinality(DOMAIN service.results) = 2
    /\ \A i \in 1..2 : service.inv[i].tokenRequests >= 1

\* shopRates(["ups", "ups"]) has returned a map of one entry; both
\* invocations ran, with different outcomes.
C36_WitnessTwice ==
    /\ ShopAllSettled
    /\ service.carrierNames = << <<"u", "p", "s">>, <<"u", "p", "s">> >>
    /\ Cardinality(DOMAIN service.results) = 1
    /\ \A i \in 1..2 : service.inv[i].tokenRequests >= 1
    /\ service.inv[1].outcome # service.inv[2].outcome

(***************************************************************************)
(* C37: checkCarrierHealth for a name that is not supported.               *)
(***************************************************************************)
\* C37: checkCarrierHealth for a name that is not "ups" in any letter case
\* has rejected, at once, with the plain lookup error that names it, with
\* no adapter and no network request; for "ups" in any letter case it never
\* rejects and, once settled, has resolved to true or false.
C37_HealthOfUnsupportedRejects ==
    service.op = "checkCarrierHealth"
        => LET name == service.carrierNames[1]
               iv == service.inv[1]
           IN /\ Len(service.inv) = 1
              /\ ~IsUps(name)
                    => /\ service.pc = "rejected"
                       /\ iv.pc = "rejected"
                       /\ ~iv.outcome.ok
                       /\ iv.outcome.error.raw
                       /\ iv.outcome.error.code = "Error"
                       /\ iv.outcome.error.message.unsupported = name
                       /\ ~iv.adapter
                       /\ iv.tokenRequests = 0 /\ iv.rateRequests = 0
              /\ IsUps(name)
                    => /\ service.pc \in {"pending", "resolved"}
                       /\ iv.adapter
                       /\ iv.rateRequests = 0
                       /\ service.pc = "resolved"
                            => /\ iv.pc = "resolved"
                               /\ iv.outcome.ok
                               /\ iv.outcome.error = NoError
                               /\ iv.outcome.healthy \in BOOLEAN
                               /\ iv.outcome.healthy <=> iv.cachedToken.present

\* checkCarrierHealth("x") has rejected without a network request.
C37_Witness ==
    /\ service.op = "checkCarrierHealth"
    /\ service.carrierNames = << <<"x">> >>
    /\ service.pc = "rejected"
    /\ service.inv[1].tokenRequests = 0

\* checkCarrierHealth("UPS") has resolved to false after the token request
\* failed.
C37_WitnessUnhealthy ==
    /\ service.op = "checkCarrierHealth"
    /\ service.carrierNames = << <<"U", "P", "S">> >>
    /\ service.pc = "resolved"
    /\ ~service.inv[1].outcome.healthy
    /\ service.inv[1].tokenRequests >= 1

(***************************************************************************)
(* C38: termination.                                                       *)
(***************************************************************************)
\* Invocation i exists and is at one of the given places.
InvAt(i, places) == i \in 1..Len(service.inv) /\ service.inv[i].pc \in places

\* C38: when every attempt settles and every timer fires, the token request
\* and the rating request of every invocation complete (the attempt index
\* never exceeds maxRetries), every invocation settles, and every call on
\* the service, shopRates included, completes; and a shopRates call of which
\* an invocation has not settled has not returned, whether or not the
\* caller's deadline has elapsed.
C38_CallsTerminate ==
    /\ [](\A i \in 1..Len(service.inv) : service.inv[i].attempt <= maxRetries)
    /\ [](service.op = "shopRates"
            => /\ service.pc \in {"pending", "resolved"}
               /\ SomePending => service.pc = "pending")
    /\ \A i \in 1..2 :
        InvAt(i, {"tokenInflight", "tokenSleeping", "rateInflight", "rateSleeping"})
            ~> InvAt(i, {"resolved", "rejected"})
    /\ (service.pc = "pending") ~> (service.pc # "pending")

\* A shopRates call has returned after both invocations used their retry:
\* one exhausted it on the token request, the other on the rating request.
C38_Witness ==
    /\ maxRetries >= 1
    /\ service.op = "shopRates" /\ service.pc = "resolved"
    /\ Len(service.inv) = 2
    /\ \E i, j \in 1..2 :
        /\ service.inv[i].tokenRequests = maxRetries + 1
        /\ service.inv[i].pc = "rejected"
        /\ service.inv[j].rateRequests = maxRetries + 1

\* The deadline of a shopRates call has elapsed and the call is pending
\* with an invocation that has not settled.
C38_WitnessPending ==
    /\ service.op = "shopRates" /\ service.pc = "pending"
    /\ service.deadline
    /\ SomePending
====
